---- MODULE Spec2Model ----
(***************************************************************************)
(* Model of the AutoMapper suggestion engine                               *)
(* (src/backend/datascience/auto_mapper.py) and of the endpoints that      *)
(* drive it (src/backend/routes/auto_mapping.py).                          *)
(*                                                                         *)
(* Strings are sequences of one-character strings.  Every score is an      *)
(* exact integer: similarities and boosts are in thousandths, confidences  *)
(* in 1/ConfUnit, so that the comparisons of the code (> 0.1, the sort)    *)
(* are decided on exact values.                                            *)
(***************************************************************************)
EXTENDS Integers, Sequences, FiniteSets, TLC

(***************************************************************************)
(* Characters and elementary string functions (str.lower, str.strip,       *)
(* str.split, slicing, the classes \d \w \s of module re).                 *)
(***************************************************************************)
LowerLetters == <<"a","b","c","d","e","f","g","h","i","j","k","l","m",
                  "n","o","p","q","r","s","t","u","v","w","x","y","z">>

UpperLetters == <<"A","B","C","D","E","F","G","H","I","J","K","L","M",
                  "N","O","P","Q","R","S","T","U","V","W","X","Y","Z">>

DigitChars == <<"0","1","2","3","4","5","6","7","8","9">>

\* code-point order of the characters that survive lower(): digits < "_" < letters
CharOrder == DigitChars \o <<"_">> \o LowerLetters

Range(f) == {f[i] : i \in DOMAIN f}

IsDigit(c) == c \in Range(DigitChars)

IsUpper(c) == c \in Range(UpperLetters)

WordChars == Range(DigitChars) \cup Range(LowerLetters) \cup Range(UpperLetters) \cup {"_"}

\* the characters of the model's strings that \W matches
NonWordChars == {" ", "-", ".", "$", "/", "(", ")", ","}

IsWordChar(c) == c \in WordChars

IsSpace(c) == c = " "

Ord(c) == IF c \in Range(CharOrder) THEN CHOOSE i \in DOMAIN CharOrder : CharOrder[i] = c ELSE 0

LowerChar(c) == IF IsUpper(c) THEN LowerLetters[CHOOSE i \in DOMAIN UpperLetters : UpperLetters[i] = c] ELSE c

\* str.lower()
Lower(s) == [i \in 1..Len(s) |-> LowerChar(s[i])]

Min(a, b) == IF a <= b THEN a ELSE b

Max(a, b) == IF a >= b THEN a ELSE b

\* s[lo:hi] of Python with 0 <= lo, as a 1-based SubSeq
Slice(s, lo, hi) == SubSeq(s, lo + 1, Min(hi, Len(s)))

RECURSIVE SeqFilter(_, _)
\* the characters of s that are not in drop, in order
SeqFilter(s, drop) ==
  IF s = <<>> THEN <<>>
  ELSE IF Head(s) \in drop THEN SeqFilter(Tail(s), drop)
       ELSE <<Head(s)>> \o SeqFilter(Tail(s), drop)

RECURSIVE Strip(_)
\* str.strip()
Strip(s) ==
  IF s = <<>> THEN <<>>
  ELSE IF IsSpace(Head(s)) THEN Strip(Tail(s))
  ELSE IF IsSpace(s[Len(s)]) THEN Strip(SubSeq(s, 1, Len(s) - 1))
  ELSE s

RECURSIVE SplitRuns(_, _)
\* the maximal runs of s made of characters outside seps, in order
SplitRuns(s, seps) ==
  IF s = <<>> THEN <<>>
  ELSE IF Head(s) \in seps THEN SplitRuns(Tail(s), seps)
  ELSE LET n == CHOOSE k \in 1..Len(s) :
                  /\ \A i \in 1..k : s[i] \notin seps
                  /\ (k = Len(s) \/ s[k + 1] \in seps)
       IN <<SubSeq(s, 1, n)>> \o SplitRuns(SubSeq(s, n + 1, Len(s)), seps)

\* lexicographic order of strings by code point
StrLess(a, b) ==
  \E k \in 1..(Min(Len(a), Len(b)) + 1) :
     /\ \A i \in 1..(k - 1) : a[i] = b[i]
     /\ \/ (k = Len(a) + 1 /\ k <= Len(b))
        \/ (k <= Len(a) /\ k <= Len(b) /\ Ord(a[k]) < Ord(b[k]))

RECURSIVE InsertSorted(_, _)
InsertSorted(t, sorted) ==
  IF sorted = <<>> THEN <<t>>
  ELSE IF StrLess(t, Head(sorted)) THEN <<t>> \o sorted
  ELSE <<Head(sorted)>> \o InsertSorted(t, Tail(sorted))

RECURSIVE SortTokens(_)
\* sorted(tokens)
SortTokens(ts) == IF ts = <<>> THEN <<>> ELSE InsertSorted(Head(ts), SortTokens(Tail(ts)))

RECURSIVE JoinSpace(_)
\* " ".join(tokens)
JoinSpace(ts) ==
  IF ts = <<>> THEN <<>>
  ELSE IF Len(ts) = 1 THEN ts[1]
  ELSE ts[1] \o <<" ">> \o JoinSpace(Tail(ts))

\* a contains b as a substring (Python: b in a)
Contains(a, b) == \E i \in 0..(Len(a) - Len(b)) : SubSeq(a, i + 1, i + Len(b)) = b

\* int(round(num / den)) of Python 3 for num >= 0, den > 0: round half to even
RoundHalfEven(num, den) ==
  LET q == num \div den
      r == num % den
  IN IF 2 * r < den THEN q
     ELSE IF 2 * r > den THEN q + 1
     ELSE IF q % 2 = 0 THEN q ELSE q + 1

RECURSIVE Tabulate(_, _)
\* the function f restricted to S, with every value computed once
Tabulate(f, S) ==
  IF S = {} THEN <<>>
  ELSE LET x == CHOOSE y \in S : TRUE IN (x :> f[x]) @@ Tabulate(f, S \ {x})

(***************************************************************************)
(* fuzzywuzzy.fuzz as called by the scorer (pure-Python build: difflib's   *)
(* SequenceMatcher).  Results are integers 0..100.                         *)
(***************************************************************************)
\* SequenceMatcher.find_longest_match on a[alo:ahi], b[blo:bhi] (0-based, half
\* open): the longest common block, earliest in a, then earliest in b
FindLongestMatch(a, b, alo, ahi, blo, bhi) ==
  LET cands == {c \in (alo..(ahi - 1)) \X (blo..(bhi - 1)) \X (1..Min(ahi - alo, bhi - blo)) :
                  /\ c[1] + c[3] <= ahi
                  /\ c[2] + c[3] <= bhi
                  /\ \A t \in 1..c[3] : a[c[1] + t] = b[c[2] + t]}
  IN IF cands = {} THEN <<alo, blo, 0>>
     ELSE CHOOSE c \in cands : \A d \in cands :
            \/ c[3] > d[3]
            \/ (c[3] = d[3] /\ c[1] < d[1])
            \/ (c[3] = d[3] /\ c[1] = d[1] /\ c[2] <= d[2])

RECURSIVE MatchingBlocks(_, _, _, _, _, _)
\* SequenceMatcher.get_matching_blocks without the closing sentinel
MatchingBlocks(a, b, alo, ahi, blo, bhi) ==
  IF alo >= ahi \/ blo >= bhi THEN {}
  ELSE LET m == FindLongestMatch(a, b, alo, ahi, blo, bhi)
       IN IF m[3] = 0 THEN {}
          ELSE MatchingBlocks(a, b, alo, m[1], blo, m[2])
               \cup {m}
               \cup MatchingBlocks(a, b, m[1] + m[3], ahi, m[2] + m[3], bhi)

RECURSIVE SumSizes(_)
SumSizes(blocks) ==
  IF blocks = {} THEN 0
  ELSE LET m == CHOOSE x \in blocks : TRUE IN m[3] + SumSizes(blocks \ {m})

\* the number of matched characters M of SequenceMatcher.ratio() = 2M / T
Matches(a, b) == SumSizes(MatchingBlocks(a, b, 0, Len(a), 0, Len(b)))

\* fuzz.ratio
fuzz_ratio(s1, s2) ==
  IF s1 = s2 THEN 100
  ELSE IF Len(s1) = 0 \/ Len(s2) = 0 THEN 0
  ELSE RoundHalfEven(200 * Matches(s1, s2), Len(s1) + Len(s2))

\* fuzz.partial_ratio: the shorter string against the windows of the longer one
\* that the matching blocks (and the closing sentinel) point at
fuzz_partial_ratio(s1, s2) ==
  IF s1 = s2 THEN 100
  ELSE IF Len(s1) = 0 \/ Len(s2) = 0 THEN 0
  ELSE LET shorter == IF Len(s1) <= Len(s2) THEN s1 ELSE s2
           longer == IF Len(s1) <= Len(s2) THEN s2 ELSE s1
           blocks == MatchingBlocks(shorter, longer, 0, Len(shorter), 0, Len(longer))
                       \cup {<<Len(shorter), Len(longer), 0>>}
           starts == {Max(m[2] - m[1], 0) : m \in blocks}
           sub(d) == Slice(longer, d, d + Len(shorter))
           twoM(d) == 2 * Matches(shorter, sub(d))
           total(d) == Len(shorter) + Len(sub(d))
       IN IF \E d \in starts : 1000 * twoM(d) > 995 * total(d) THEN 100
          ELSE LET best == CHOOSE d \in starts : \A e \in starts :
                              twoM(d) * total(e) >= twoM(e) * total(d)
               IN RoundHalfEven(100 * twoM(best), total(best))

\* utils.full_process: non-word characters become blanks, lower, strip
full_process(s) == Strip(Lower([i \in 1..Len(s) |-> IF s[i] \in NonWordChars THEN " " ELSE s[i]]))

\* fuzz._process_and_sort: the tokens of the processed string, sorted and joined
process_and_sort(s) == Strip(JoinSpace(SortTokens(SplitRuns(full_process(s), {" "}))))

\* fuzz.token_sort_ratio
fuzz_token_sort_ratio(s1, s2) == fuzz_ratio(process_and_sort(s1), process_and_sort(s2))

(***************************************************************************)
(* The universe of the model: the source column names of requests and      *)
(* corrections, the rows of pi20_data_model, the sample values.            *)
(***************************************************************************)
\* Python's None, as a value no string equals
NoneValue == <<"None">>

SrcNpi == <<"n","p","i">>

SrcNPI == <<"N","P","I">>

SrcNpis == <<"n","p","i","s">>

SrcZipCode == <<"z","i","p","-","c","o","d","e">>

\* the column names a request can carry
Sources == {SrcNpi, SrcNPI, SrcNpis, SrcZipCode}

\* the source columns users send corrections for
CorrectionSources == {SrcNPI, SrcNpis}

ColNPI == <<"N","P","I">>

ColZIP_CODE == <<"Z","I","P","_","C","O","D","E">>

ColTAX == <<"T","A","X">>

ColNPI_ID == <<"N","P","I","_","I","D">>

ColNPI2 == <<"N","P","I","2">>

ColPNPI == <<"P","N","P","I">>

ColZIP == <<"Z","I","P">>

ColDOB == <<"D","O","B">>

DescNpi == <<"n","p","i">>

DescZipCode == <<"Z","i","p"," ","c","o","d","e">>

DescProvNpi == <<"p","r","o","v"," ","n","p","i">>

DescNpiId == <<"N","P","I"," ","i","d">>

DescZip == <<"t","h","e"," ","z","i","p">>

\* DataModelField (table, column, description, data_type)
Field(t, c, d, ty) == [table |-> t, column |-> c, description |-> d, data_type |-> ty]

\* the rows of pi20_data_model in the order of the loader's query
\* (ORDER BY TABLE_NAME, COLUMN_ORDER)
AllFields ==
  << Field("CLAIM", ColNPI, DescNpi, "VARCHAR"),
     Field("CLAIM", ColZIP_CODE, DescZipCode, "VARCHAR"),
     Field("MEMBER", ColTAX, <<>>, "VARCHAR"),
     Field("PROV", ColNPI, DescProvNpi, "VARCHAR"),
     Field("PROV", ColNPI_ID, DescNpiId, "NUMBER"),
     Field("PROV", ColNPI2, <<>>, "VARCHAR"),
     Field("PROV", ColPNPI, <<>>, "VARCHAR"),
     Field("PROV", ColZIP, DescZip, "VARCHAR") >>

\* a pi20_data_model loaded from a file that repeats a line: the table has no
\* key, and INSERT INTO pi20_data_model SELECT * keeps both rows
RepeatedRows ==
  << Field("CLAIM", ColNPI, DescNpi, "VARCHAR"),
     Field("MEMBER", ColDOB, <<>>, "DATE"),
     Field("PROV", ColNPI, DescProvNpi, "VARCHAR"),
     Field("PROV", ColNPI, DescProvNpi, "VARCHAR") >>

Columns == {AllFields[i].column : i \in DOMAIN AllFields}
           \cup {RepeatedRows[i].column : i \in DOMAIN RepeatedRows}

Descriptions == {AllFields[i].description : i \in DOMAIN AllFields}
                \cup {RepeatedRows[i].description : i \in DOMAIN RepeatedRows}

\* the (table, column) pairs users name as the correct target
CorrectionTargets == {<<"PROV", ColNPI>>, <<"MEMBER", ColTAX>>}

ValTenDigits == <<"1","2","3","4","5","6","7","8","9","0">>

ValZip == <<" ","1","2","3","4","5">>

\* the sample values of requests
Values == {ValTenDigits, ValZip, NoneValue}

(***************************************************************************)
(* calculate_string_similarity, in thousandths.                            *)
(***************************************************************************)
\* re.sub(r'[_\s-]+', '', name.lower())
NormalizeName(name) == SeqFilter(Lower(name), {"_", " ", "-"})

\* 0.4 * ratio + 0.3 * partial + 0.3 * token_sort, each of them n / 100.0
calculate_string_similarity(source_col, target_col) ==
  LET source_norm == NormalizeName(source_col)
      target_norm == NormalizeName(target_col)
      ratio == fuzz_ratio(source_norm, target_norm)
      partial == fuzz_partial_ratio(source_norm, target_norm)
      token_sort == fuzz_token_sort_ratio(Lower(source_col), Lower(target_col))
  IN 4 * ratio + 3 * partial + 3 * token_sort

\* the name similarity of every (source, column) pair of the universe
NameSimilarity ==
  Tabulate([p \in Sources \X Columns |-> calculate_string_similarity(p[1], p[2])], Sources \X Columns)

\* fuzz.ratio(correction source .lower(), source .lower()) over the universe
SourceRatio ==
  Tabulate([p \in CorrectionSources \X Sources |-> fuzz_ratio(Lower(p[1]), Lower(p[2]))],
           CorrectionSources \X Sources)

(***************************************************************************)
(* get_semantic_similarity: TfidfVectorizer(stop_words='english') on the   *)
(* two texts and the cosine of the two rows, in thousandths (floor).       *)
(***************************************************************************)
\* the members of sklearn's English stop word list that the universe can meet
StopWords == {<<"t","h","e">>, <<"o","f">>, <<"a","n","d">>, <<"f","o","r">>}

\* the analyzer: lower-case, tokens \b\w\w+\b, stop words removed
Tokens(text) ==
  LET runs == SplitRuns(Lower(text), NonWordChars)
  IN SelectSeq(runs, LAMBDA t : Len(t) >= 2 /\ t \notin StopWords)

\* term frequency of token t in the token list ts
Tf(t, ts) == Cardinality({i \in DOMAIN ts : ts[i] = t})

RECURSIVE SumOver(_, _)
\* the sum of f[x] over the x of S
SumOver(S, f) ==
  IF S = {} THEN 0
  ELSE LET x == CHOOSE y \in S : TRUE IN f[x] + SumOver(S \ {x}, f)

\* floor of the square root
Isqrt(n) == CHOOSE r \in 0..1000 : r * r <= n /\ (r + 1) * (r + 1) > n

\* squared smoothed idf, in thousandths, of a term both documents hold
\* ((ln(3/3) + 1)^2) and of a term one document holds ((ln(3/2) + 1)^2)
IdfSharedSq == 1000

IdfSingleSq == 1975

get_semantic_similarity(source_desc, target_desc) ==
  IF source_desc = <<>> \/ target_desc = <<>> THEN 0
  ELSE LET t1 == Tokens(source_desc)
           t2 == Tokens(target_desc)
           v1 == Range(t1)
           v2 == Range(t2)
           dot == SumOver(v1 \cap v2, [t \in v1 \cap v2 |-> Tf(t, t1) * Tf(t, t2)])
           sq(t, ts, other) == Tf(t, ts) * Tf(t, ts) * (IF t \in other THEN IdfSharedSq ELSE IdfSingleSq)
           n1 == SumOver(v1, [t \in v1 |-> sq(t, t1, v2)])
           n2 == SumOver(v2, [t \in v2 |-> sq(t, t2, v1)])
       IN IF v1 \cup v2 = {} THEN 0                 \* empty vocabulary: ValueError, caught
          ELSE IF dot = 0 THEN 0
          ELSE Isqrt(10 * ((((dot * dot * 100000000) \div n1) * 1000) \div n2))

SemanticSimilarity ==
  Tabulate([p \in Sources \X Descriptions |-> get_semantic_similarity(p[1], p[2])],
           Sources \X Descriptions)

(***************************************************************************)
(* The pattern library and analyze_data_patterns.  A regular expression is *)
(* named by its text; RegexMatch gives re.match(pattern, value).           *)
(***************************************************************************)
AllDigits(s) == \A i \in DOMAIN s : IsDigit(s[i])

\* \d{lo,hi} on the whole of s
DigitRun(s, lo, hi) == Len(s) >= lo /\ Len(s) <= hi /\ AllDigits(s)

\* \w{lo,hi} on the whole of s
WordRun(s, lo, hi) == Len(s) >= lo /\ Len(s) <= hi /\ \A i \in DOMAIN s : IsWordChar(s[i])

\* s[i..] as a sequence
From(s, i) == SubSeq(s, i, Len(s))

\* the strings left after an optional leading character c (c?)
AfterOptional(s, c) == {s} \cup (IF s # <<>> /\ Head(s) = c THEN {Tail(s)} ELSE {})

RegexMatch(pattern, s) ==
  CASE pattern = "^\\d{5,20}$" -> DigitRun(s, 5, 20)
    [] pattern = "^\\w{5,15}-\\w{3,10}$" ->
         \E i \in DOMAIN s : s[i] = "-" /\ WordRun(SubSeq(s, 1, i - 1), 5, 15)
                                        /\ WordRun(From(s, i + 1), 3, 10)
    [] pattern = "^\\d{8,12}$" -> DigitRun(s, 8, 12)
    [] pattern = "^[A-Z]{2}\\d{6,10}$" ->
         Len(s) >= 2 /\ IsUpper(s[1]) /\ IsUpper(s[2]) /\ DigitRun(From(s, 3), 6, 10)
    [] pattern = "^\\d{4}-\\d{2}-\\d{2}$" ->
         /\ Len(s) = 10 /\ s[5] = "-" /\ s[8] = "-"
         /\ AllDigits(SubSeq(s, 1, 4)) /\ AllDigits(SubSeq(s, 6, 7)) /\ AllDigits(SubSeq(s, 9, 10))
    [] pattern = "^\\d{1,2}/\\d{1,2}/\\d{4}$" ->
         \E i, j \in DOMAIN s :
            /\ i < j /\ s[i] = "/" /\ s[j] = "/"
            /\ DigitRun(SubSeq(s, 1, i - 1), 1, 2)
            /\ DigitRun(SubSeq(s, i + 1, j - 1), 1, 2)
            /\ DigitRun(From(s, j + 1), 4, 4)
    [] pattern = "^\\d{10}$" -> DigitRun(s, 10, 10)
    [] pattern = "^\\(\\d{3}\\)\\s?\\d{3}-\\d{4}$" ->
         /\ Len(s) >= 5 /\ s[1] = "(" /\ s[5] = ")" /\ AllDigits(SubSeq(s, 2, 4))
         /\ \E r \in AfterOptional(From(s, 6), " ") :
               /\ Len(r) = 8 /\ r[4] = "-"
               /\ AllDigits(SubSeq(r, 1, 3)) /\ AllDigits(SubSeq(r, 5, 8))
    [] pattern = "^\\d+\\.\\d{2}$" ->
         /\ Len(s) >= 4 /\ s[Len(s) - 2] = "."
         /\ AllDigits(SubSeq(s, 1, Len(s) - 3)) /\ AllDigits(From(s, Len(s) - 1))
    [] pattern = "^\\$?\\d+,?\\d*\\.?\\d*$" ->
         \E t \in AfterOptional(s, "$") : \E i \in DOMAIN t :
            /\ AllDigits(SubSeq(t, 1, i))
            /\ \E u \in AfterOptional(From(t, i + 1), ",") : \E k \in 0..Len(u) :
                  /\ AllDigits(SubSeq(u, 1, k))
                  /\ \E w \in AfterOptional(From(u, k + 1), ".") : AllDigits(w)
    [] pattern = "^\\d{5}(-\\d{4})?$" ->
         \/ DigitRun(s, 5, 5)
         \/ (Len(s) = 10 /\ s[6] = "-" /\ AllDigits(SubSeq(s, 1, 5)) /\ AllDigits(From(s, 7)))
    [] pattern = "^\\d{2}-\\d{7}$" ->
         Len(s) = 10 /\ s[3] = "-" /\ AllDigits(SubSeq(s, 1, 2)) /\ AllDigits(From(s, 4))
    [] pattern = "^\\d{9}$" -> DigitRun(s, 9, 9)
    [] OTHER -> FALSE

\* a category of the pattern library: its name and its regular expressions
Category(name, patterns) == [name |-> name, patterns |-> patterns]

\* self.pattern_library as built by __init__, in insertion order
PatternLibrary ==
  << Category(<<"c","l","a","i","m","_","n","u","m","b","e","r">>,
              <<"^\\d{5,20}$", "^\\w{5,15}-\\w{3,10}$">>),
     Category(<<"m","e","m","b","e","r","_","i","d">>,
              <<"^\\d{8,12}$", "^[A-Z]{2}\\d{6,10}$">>),
     Category(<<"d","a","t","e">>,
              <<"^\\d{4}-\\d{2}-\\d{2}$", "^\\d{1,2}/\\d{1,2}/\\d{4}$">>),
     Category(<<"p","h","o","n","e">>,
              <<"^\\d{10}$", "^\\(\\d{3}\\)\\s?\\d{3}-\\d{4}$">>),
     Category(<<"a","m","o","u","n","t">>,
              <<"^\\d+\\.\\d{2}$", "^\\$?\\d+,?\\d*\\.?\\d*$">>),
     Category(<<"z","i","p","_","c","o","d","e">>,
              <<"^\\d{5}(-\\d{4})?$">>),
     Category(<<"n","p","i">>,
              <<"^\\d{10}$">>),
     Category(<<"t","a","x","_","i","d">>,
              <<"^\\d{2}-\\d{7}$", "^\\d{9}$">>) >>

AllPatterns == UNION {Range(PatternLibrary[i].patterns) : i \in DOMAIN PatternLibrary}

\* re.match(pattern, str(value).strip()) for every pattern and sample value
PatternMatches ==
  LET pairs == AllPatterns \X (Values \ {NoneValue})
  IN Tabulate([p \in pairs |-> RegexMatch(p[1], Strip(p[2]))], pairs)

\* the first 10 values are looked at
MaxPatternValues == 10

\* the common denominator of the scores matches / min(len(clean_values), 10)
ScoreUnit == 2 * 2 * 2 * 3 * 3 * 5 * 7

\* an analysis that gives every category the full score when there is no value
analyze_data_patterns_default(library, sample_values) ==
  LET clean_values == SelectSeq(sample_values, LAMBDA v : v # NoneValue)
      first == SubSeq(clean_values, 1, Min(Len(clean_values), MaxPatternValues))
      matches(cat) == Cardinality({i \in DOMAIN first :
                         \E k \in DOMAIN cat.patterns : PatternMatches[<<cat.patterns[k], first[i]>>]})
  IN [c \in DOMAIN library |->
        [name |-> library[c].name,
         score |-> IF clean_values = <<>> THEN ScoreUnit
                   ELSE matches(library[c]) * (ScoreUnit \div Min(Len(clean_values), MaxPatternValues))]]

\* an analysis whose inner loop runs over every clean value, not the first 10
analyze_data_patterns_unsliced(library, sample_values) ==
  IF sample_values = <<>> THEN <<>>
  ELSE LET clean_values == SelectSeq(sample_values, LAMBDA v : v # NoneValue)
           matches(cat) == Cardinality({i \in DOMAIN clean_values :
                              \E k \in DOMAIN cat.patterns :
                                 PatternMatches[<<cat.patterns[k], clean_values[i]>>]})
       IN IF clean_values = <<>> THEN <<>>
          ELSE [c \in DOMAIN library |->
                  [name |-> library[c].name,
                   score |-> matches(library[c]) * (ScoreUnit \div Min(Len(clean_values), MaxPatternValues))]]

\* analyze_data_patterns: per category of library (in its order) the score
\* matches / min(len(clean_values), 10), in 1/ScoreUnit; <<>> is the empty dict
analyze_data_patterns(library, sample_values) ==
  IF sample_values = <<>> THEN <<>>
  ELSE LET clean_values == SelectSeq(sample_values, LAMBDA v : v # NoneValue)
           first == SubSeq(clean_values, 1, Min(Len(clean_values), MaxPatternValues))
           matches(cat) == Cardinality({i \in DOMAIN first :
                              \E k \in DOMAIN cat.patterns : PatternMatches[<<cat.patterns[k], first[i]>>]})
       IN IF clean_values = <<>> THEN <<>>
          ELSE [c \in DOMAIN library |->
                  [name |-> library[c].name,
                   score |-> matches(library[c]) * (ScoreUnit \div Min(Len(clean_values), MaxPatternValues))]]

(***************************************************************************)
(* apply_learning_boost, in thousandths.  A correction is the dict of one  *)
(* row of mapping_corrections as load_correction_history returns it.       *)
(***************************************************************************)
Correction(src, t, c, wrong) ==
  [source_column |-> src, correct_target_table |-> t,
   correct_target_column |-> c, incorrect_suggestion |-> wrong]

\* boost += 0.3 for an exact earlier correction
ExactBoost == 300

\* boost += 0.1 for a similar source column corrected to the same target
SimilarBoost == 100

\* fuzz.ratio(...) > 80
SimilarThreshold == 80

\* min(boost, 0.5)
BoostCap == 500

\* correction['source_column'].lower() == source_col.lower() over the universe
SameSource ==
  Tabulate([p \in CorrectionSources \X Sources |-> Lower(p[1]) = Lower(p[2])],
           CorrectionSources \X Sources)

\* a boost whose second test is an elif: an exact correction adds 0.3 only
BoostOfEither(correction, source_col, target_field) ==
  LET same_target == /\ correction.correct_target_table = target_field.table
                     /\ correction.correct_target_column = target_field.column
  IN IF SameSource[<<correction.source_column, source_col>>] /\ same_target
       THEN ExactBoost
       ELSE IF SourceRatio[<<correction.source_column, source_col>>] > SimilarThreshold /\ same_target
              THEN SimilarBoost ELSE 0

\* what one correction adds to the boost of target_field for source_col
BoostOf(correction, source_col, target_field) ==
  LET same_target == /\ correction.correct_target_table = target_field.table
                     /\ correction.correct_target_column = target_field.column
  IN (IF SameSource[<<correction.source_column, source_col>>] /\ same_target
        THEN ExactBoost ELSE 0)
     + (IF SourceRatio[<<correction.source_column, source_col>>] > SimilarThreshold /\ same_target
          THEN SimilarBoost ELSE 0)

RECURSIVE SumBoost(_, _, _)
SumBoost(history, source_col, target_field) ==
  IF history = <<>> THEN 0
  ELSE BoostOf(Head(history), source_col, target_field)
       + SumBoost(Tail(history), source_col, target_field)

\* a boost without the cap
apply_learning_boost_uncapped(history, source_col, target_field) ==
  SumBoost(history, source_col, target_field)

apply_learning_boost(history, source_col, target_field) ==
  Min(SumBoost(history, source_col, target_field), BoostCap)

(***************************************************************************)
(* generate_mapping_suggestions.  Confidences are integers in 1/ConfUnit.  *)
(***************************************************************************)
\* a confidence of 1.0
ConfUnit == 1000 * 630

\* one thousandth, and one unit of a pattern boost (score * 0.2), in 1/ConfUnit
Thousandth == ConfUnit \div 1000

BoostUnit == ConfUnit \div (5 * ScoreUnit)

\* the weights of the blend, in tenths
NameWeight == 4

SemanticWeight == 2

PatternWeight == 2

LearningWeight == 2

\* confidence > 0.1
ConfidenceFloor == ConfUnit \div 10

\* suggestions[:5]
TopN == 5

RECURSIVE SplitOn(_, _)
\* str.split(sep) for a one-character separator
SplitOn(s, sep) ==
  IF \A i \in DOMAIN s : s[i] # sep THEN <<s>>
  ELSE LET n == CHOOSE k \in DOMAIN s : s[k] = sep /\ \A i \in 1..(k - 1) : s[i] # sep
       IN <<SubSeq(s, 1, n - 1)>> \o SplitOn(From(s, n + 1), sep)

\* a test that lets every category apply to every column
CategoryAppliesAlways(pattern_type, field_name_lower) == TRUE

\* pattern_type in field_name_lower or any(keyword in field_name_lower ...)
CategoryApplies(pattern_type, field_name_lower) ==
  \/ Contains(field_name_lower, pattern_type)
  \/ \E keyword \in Range(SplitOn(pattern_type, "_")) : Contains(field_name_lower, keyword)

\* CategoryApplies for every category of the library and every column .lower()
Applies ==
  LET pairs == {PatternLibrary[i].name : i \in DOMAIN PatternLibrary} \X Columns
  IN Tabulate([p \in pairs |-> CategoryApplies(p[1], Lower(p[2]))], pairs)

RECURSIVE PatternBoost(_, _)
\* the sum of score * 0.2 over the categories that apply to the column, in
\* 1/(5 * ScoreUnit)
PatternBoost(pattern_scores, column) ==
  IF pattern_scores = <<>> THEN 0
  ELSE (IF Applies[<<Head(pattern_scores).name, column>>]
          THEN Head(pattern_scores).score ELSE 0)
       + PatternBoost(Tail(pattern_scores), column)

\* max(pattern_scores.items(), key=lambda x: x[1])[0]: the first best category
BestPattern(pattern_scores) ==
  LET i == CHOOSE k \in DOMAIN pattern_scores :
             /\ \A j \in DOMAIN pattern_scores : pattern_scores[j].score <= pattern_scores[k].score
             /\ \A j \in 1..(k - 1) : pattern_scores[j].score < pattern_scores[k].score
  IN pattern_scores[i].name

\* a blend that adds the four signals without their weights
BlendUnweighted(name_similarity, semantic_similarity, pattern_boost, learning_boost) ==
  name_similarity * Thousandth + semantic_similarity * Thousandth
  + pattern_boost * BoostUnit + learning_boost * Thousandth

\* a blend with the weights of the name and the description exchanged
BlendSwapped(name_similarity, semantic_similarity, pattern_boost, learning_boost) ==
  (SemanticWeight * name_similarity * Thousandth
   + NameWeight * semantic_similarity * Thousandth
   + PatternWeight * pattern_boost * BoostUnit
   + LearningWeight * learning_boost * Thousandth) \div 10

\* the weighted sum of the four signals
Blend(name_similarity, semantic_similarity, pattern_boost, learning_boost) ==
  (NameWeight * name_similarity * Thousandth
   + SemanticWeight * semantic_similarity * Thousandth
   + PatternWeight * pattern_boost * BoostUnit
   + LearningWeight * learning_boost * Thousandth) \div 10

\* the reasoning parts, in the order the code appends them
Reasoning(name_similarity, semantic_similarity, pattern_boost, learning_boost, pattern_scores) ==
  LET parts ==
        (IF 10 * name_similarity > 6 * 1000 THEN <<<<"Column name match">>>> ELSE <<>>)
        \o (IF 10 * pattern_boost > 5 * ScoreUnit /\ pattern_scores # <<>>
              THEN <<<<"Data pattern suggests", BestPattern(pattern_scores)>>>> ELSE <<>>)
        \o (IF 10 * learning_boost > 1000 THEN <<<<"Previously learned mapping">>>> ELSE <<>>)
        \o (IF 10 * semantic_similarity > 3 * 1000 THEN <<<<"Description similarity">>>> ELSE <<>>)
  IN IF parts # <<>> THEN parts ELSE <<<<"Basic similarity match">>>>

\* one pass of the loop over data_model_fields: the MappingSuggestion of a field
Score(history, pattern_scores, source_column, target_field) ==
  LET name_similarity == NameSimilarity[<<source_column, target_field.column>>]
      semantic_similarity == SemanticSimilarity[<<source_column, target_field.description>>]
      learning_boost == apply_learning_boost(history, source_column, target_field)
      pattern_boost == PatternBoost(pattern_scores, target_field.column)
  IN [source_column |-> source_column,
      target_column |-> target_field.column,
      target_table |-> target_field.table,
      confidence |-> Blend(name_similarity, semantic_similarity, pattern_boost, learning_boost),
      reasoning |-> Reasoning(name_similarity, semantic_similarity, pattern_boost,
                              learning_boost, pattern_scores),
      data_type |-> target_field.data_type]

\* a floor that keeps a confidence of exactly 0.1
PassesFloorInclusive(suggestion) == suggestion.confidence >= ConfidenceFloor

\* if confidence > 0.1
PassesFloor(suggestion) == suggestion.confidence > ConfidenceFloor

\* an insertion for an ascending sort (reverse=True left out)
InsertAscending(x, sorted) ==
  LET n == Cardinality({i \in DOMAIN sorted : sorted[i].confidence <= x.confidence})
  IN SubSeq(sorted, 1, n) \o <<x>> \o SubSeq(sorted, n + 1, Len(sorted))

RECURSIVE InsertBeforeEqual(_, _)
\* an insertion that puts x before the entries of its own confidence
InsertBeforeEqual(x, sorted) ==
  IF sorted = <<>> THEN <<x>>
  ELSE IF Head(sorted).confidence > x.confidence
         THEN <<Head(sorted)>> \o InsertBeforeEqual(x, Tail(sorted))
         ELSE <<x>> \o sorted

RECURSIVE InsertByConfidence(_, _)
\* x goes after the entries of sorted whose confidence is at least its own
InsertByConfidence(x, sorted) ==
  IF sorted = <<>> THEN <<x>>
  ELSE IF Head(sorted).confidence >= x.confidence
         THEN <<Head(sorted)>> \o InsertByConfidence(x, Tail(sorted))
         ELSE <<x>> \o sorted

\* no sort at all: the suggestions in dictionary order
SortLeftOut(suggestions) == suggestions

RECURSIVE SortByConfidence(_)
\* suggestions.sort(key=lambda x: x.confidence, reverse=True): stable, descending
SortByConfidence(suggestions) ==
  IF suggestions = <<>> THEN <<>>
  ELSE InsertByConfidence(suggestions[Len(suggestions)],
                          SortByConfidence(SubSeq(suggestions, 1, Len(suggestions) - 1)))

\* the suggestions list before the sort: the scored fields that pass the floor
Candidates(fields, history, library, source_column, sample_values) ==
  LET pattern_scores == analyze_data_patterns(library, sample_values)
      scored == [i \in DOMAIN fields |-> Score(history, pattern_scores, source_column, fields[i])]
  IN SelectSeq(scored, PassesFloor)

generate_mapping_suggestions(fields, history, library, source_column, sample_values) ==
  LET sorted == SortByConfidence(Candidates(fields, history, library, source_column, sample_values))
  IN SubSeq(sorted, 1, Min(TopN, Len(sorted)))

\* bulk_suggest_mappings: a dict (here a function on the keys) from the non-empty
\* column names to their suggestions; a later entry of a name replaces an earlier
\* a bulk_suggest_mappings that keeps the first result stored for a name
bulk_suggest_mappings_keeping_first(fields, history, library, source_columns) ==
  LET named == {i \in DOMAIN source_columns : source_columns[i].column_name # <<>>}
      first(k) == CHOOSE i \in named :
                    /\ source_columns[i].column_name = k
                    /\ \A j \in named : source_columns[j].column_name = k => i <= j
  IN [k \in {source_columns[i].column_name : i \in named} |->
        generate_mapping_suggestions(fields, history, library, k,
                                     source_columns[first(k)].sample_values)]

RECURSIVE bulk_suggest_mappings(_, _, _, _)
bulk_suggest_mappings(fields, history, library, source_columns) ==
  IF source_columns = <<>> THEN <<>>
  ELSE LET n == Len(source_columns)
           col_info == source_columns[n]
           results == bulk_suggest_mappings(fields, history, library, SubSeq(source_columns, 1, n - 1))
       IN IF col_info.column_name # <<>>
            THEN [k \in DOMAIN results \cup {col_info.column_name} |->
                    IF k = col_info.column_name
                      THEN generate_mapping_suggestions(fields, history, library,
                                                        col_info.column_name, col_info.sample_values)
                      ELSE results[k]]
            ELSE results

(***************************************************************************)
(* The state: one AutoMapper, the DuckDB files it connects to, and the     *)
(* last request served with its response.                                  *)
(***************************************************************************)
VARIABLES
  db_url,              \* self.db_url: a database path, or NoUrl for None
  data_model_fields,   \* self.data_model_fields
  correction_history,  \* self.correction_history
  pattern_library,     \* self.pattern_library
  database,            \* per database path, the rows of its mapping_corrections table
  inserted,            \* the number of rows inserted since construction
  inflight,            \* the suggest-single handler that is running, if one is
  expression_data,     \* the transform expression sent to POST /dsl/validate
  crosswalk_template,  \* the rows of table crosswalk_template
  snowflake_sql_exports, \* the rows of table snowflake_sql_exports
  crosswalk_mappings,  \* the rows of table crosswalk_mappings
  last                 \* the last operation: name, request, response, state before it

\* the state of the other routers of the backend, which the auto-mapping
\* endpoints do not touch
backend == <<expression_data, crosswalk_template, snowflake_sql_exports, crosswalk_mappings>>

\* the AutoMapper of the auto-mapping router and its DuckDB files
mapper == <<db_url, data_model_fields, correction_history, pattern_library, database, inserted,
            inflight>>

vars == <<db_url, data_model_fields, correction_history, pattern_library, database, inserted,
          inflight, expression_data, crosswalk_template, snowflake_sql_exports, crosswalk_mappings, last>>

\* the dictionaries loaded have up to MaxFields rows
MaxFields == 7

\* a run inserts up to MaxNewRows corrections
MaxNewRows == 1

NoUrl == "None"

ExplicitUrl == "crosswalk.duckdb"

DefaultLoadPath == "database/crosswalk.duckdb"

DefaultRecordPath == "backend/database/crosswalk.duckdb"

Paths == {ExplicitUrl, DefaultLoadPath, DefaultRecordPath}

\* duckdb.connect(self.db_url or 'database/crosswalk.duckdb') of the two loaders
LoadPath(url) == IF url # NoUrl THEN url ELSE DefaultLoadPath

\* duckdb.connect(self.db_url or 'backend/database/crosswalk.duckdb') of record_correction
RecordPath(url) == IF url # NoUrl THEN url ELSE DefaultRecordPath

\* the first n rows of pi20_data_model
Dictionary(n) == SubSeq(AllFields, 1, Min(n, Len(AllFields)))

\* load_data_model: the rows as DataModelFields, [] when the query raises
load_data_model(rows, raises) == IF raises THEN <<>> ELSE rows

\* load_correction_history: the rows of the table at the load path as dicts, []
\* when the connection or the query raises
load_correction_history(db, url, raises) == IF raises THEN <<>> ELSE db[LoadPath(url)]

\* the corrections users send: source column, correct table, correct column,
\* incorrect suggestion (NoneValue when the request leaves it out)
CorrectionRequests ==
  { [source_column |-> SrcNPI, correct_table |-> "PROV", correct_column |-> ColNPI,
     incorrect_suggestion |-> NoneValue],
    [source_column |-> SrcNpis, correct_table |-> "PROV", correct_column |-> ColNPI,
     incorrect_suggestion |-> ColNPI2],
    [source_column |-> SrcNPI, correct_table |-> "MEMBER", correct_column |-> ColTAX,
     incorrect_suggestion |-> NoneValue] }

\* an insert with the table and the column exchanged
InsertedRowSwapped(req) ==
  Correction(req.source_column, req.correct_column, req.correct_table,
             IF req.incorrect_suggestion = NoneValue THEN <<>> ELSE req.incorrect_suggestion)

\* the row INSERT INTO mapping_corrections ... VALUES (?, ?, ?, ?) writes
InsertedRow(req) ==
  Correction(req.source_column, req.correct_table, req.correct_column,
             IF req.incorrect_suggestion = NoneValue THEN <<>> ELSE req.incorrect_suggestion)

\* the tables of corrections a database can hold when the AutoMapper is built
InitialLogs ==
  LET row == Correction(SrcNPI, "PROV", ColNPI, <<>>)
      other == Correction(SrcNPI, "MEMBER", ColTAX, <<>>)
      null == Correction(NoneValue, "PROV", ColNPI, <<>>)
  IN {<<>>, <<row, row, other, other>>, <<null>>}

\* the Optional[List[str]] sample_values of requests: <<list>>, or <<>> for None
SampleInputs ==
  { <<>>,
    << <<>> >>,
    << <<ValTenDigits>> >>,
    << <<NoneValue>> >>,
    << <<ValZip, ValTenDigits>> >>,
    << <<ValZip, NoneValue>> >> }

\* sample_values or []
OrEmptyList(optional) == IF optional = <<>> THEN <<>> ELSE optional[1]

ColumnInfo(name, samples) == [column_name |-> name, sample_values |-> samples]

\* the source_columns lists of bulk requests
BulkRequests ==
  { <<>>,
    <<ColumnInfo(SrcNpi, <<ValTenDigits>>)>>,
    <<ColumnInfo(<<>>, <<ValZip>>)>>,
    <<ColumnInfo(SrcNpi, <<ValTenDigits>>), ColumnInfo(SrcNpi, <<>>)>>,
    <<ColumnInfo(SrcNpis, <<>>), ColumnInfo(SrcZipCode, <<ValZip, ValTenDigits>>)>>,
    <<ColumnInfo(SrcZipCode, <<ValZip>>), ColumnInfo(<<>>, <<>>), ColumnInfo(SrcNPI, <<NoneValue>>)>> }

\* what an endpoint answers: the status code and the JSON body
Response(status_code, body) == [status_code |-> status_code, body |-> body]

\* raise HTTPException(status_code=..., detail=...)
HTTPException(status_code, detail) == Response(status_code, [detail |-> detail])

\* correction['source_column'].lower() of apply_learning_boost raises an
\* AttributeError on a row whose source_column is NULL
apply_learning_boost_raises(history) ==
  \E i \in DOMAIN history : history[i].source_column = NoneValue

\* generate_mapping_suggestions has no try: it raises when the scoring of a
\* field of the dictionary does
\* a generate_mapping_suggestions that reads the learned corrections before it
\* looks at the dictionary
generate_mapping_suggestions_raises_unguarded(fields, history) ==
  apply_learning_boost_raises(history)

generate_mapping_suggestions_raises(fields, history) ==
  fields # <<>> /\ apply_learning_boost_raises(history)

\* bulk_suggest_mappings raises when a column it scores does
bulk_suggest_mappings_raises(fields, history, source_columns) ==
  /\ \E i \in DOMAIN source_columns : source_columns[i].column_name # <<>>
  /\ generate_mapping_suggestions_raises(fields, history)

\* an AutoMapper.record_correction that lets the exception of the insert out
record_correction_reraises(insert_raises, reload_raises) == insert_raises

\* AutoMapper.record_correction lets no exception out: its except clause
\* catches those of the connection and the insert, load_correction_history
\* catches its own
record_correction_raises(insert_raises, reload_raises) == FALSE

\* the attributes and tables an operation could change
Snapshot == [data_model_fields |-> data_model_fields,
             correction_history |-> correction_history,
             pattern_library |-> pattern_library,
             database |-> database]

\* what the insert and the reload of a record_correction did
Outcome(insert_done, reload_done) == [inserted |-> insert_done, reloaded |-> reload_done]

NoOutcome == Outcome(FALSE, FALSE)

Served(op, request, response, outcome) ==
  [op |-> op, request |-> request, response |-> response, outcome |-> outcome,
   before |-> Snapshot]

\* no suggest-single handler is running
Idle == [active |-> FALSE, column_name |-> <<>>, sample_values |-> <<>>, used |-> <<>>]

\* a suggest-single handler that has scored the first Len(used) fields of the
\* dictionary; used[i] is the self.correction_history that apply_learning_boost
\* iterated for field i
Running(column_name, sample_values, used) ==
  [active |-> TRUE, column_name |-> column_name, sample_values |-> sample_values, used |-> used]

\* handlers that run on threads: one may start or go on while another runs
EventLoopShared == TRUE

\* the endpoints are coroutines (async def) without an await and the app runs
\* in one uvicorn process: the event loop runs a handler to its end before it
\* starts the next
EventLoopFree == ~inflight.active

\* AutoMapper.__init__: the pattern library, then the two loaders
Init ==
  /\ db_url \in {ExplicitUrl, NoUrl}
  /\ \E log \in InitialLogs :
        database = [p \in Paths |-> IF p = LoadPath(db_url) THEN log ELSE <<>>]
  /\ pattern_library = PatternLibrary
  /\ \E rows \in {Dictionary(MaxFields - 1), Dictionary(MaxFields), RepeatedRows},
        raises \in BOOLEAN :
        data_model_fields = load_data_model(rows, raises)
  /\ \E raises \in BOOLEAN :
        correction_history = load_correction_history(database, db_url, raises)
  /\ inserted = 0
  /\ inflight = Idle
  /\ expression_data = <<>>
  /\ crosswalk_template = <<>>
  /\ snowflake_sql_exports = <<>>
  /\ crosswalk_mappings = <<>>
  /\ last = [op |-> "__init__", request |-> <<>>, response |-> Response(200, <<>>),
             outcome |-> NoOutcome,
             before |-> [data_model_fields |-> data_model_fields,
                         correction_history |-> correction_history,
                         pattern_library |-> pattern_library,
                         database |-> database]]

\* a suggest-single that forgets the corrections once it has answered
suggest_single_forgetting(column_name, sample_values) ==
  /\ last' = Served("suggest_single",
                    [column_name |-> column_name, sample_values |-> sample_values],
                    IF generate_mapping_suggestions_raises(data_model_fields, correction_history)
                      THEN HTTPException(500, "Error")
                      ELSE Response(200,
                             generate_mapping_suggestions(data_model_fields, correction_history,
                                pattern_library, column_name,
                                OrEmptyList(sample_values))),
                    NoOutcome)
  /\ correction_history' = <<>>
  /\ UNCHANGED <<backend, db_url, data_model_fields, pattern_library, database, inserted, inflight>>

\* POST /api/auto-mapping/suggest-single
suggest_single(column_name, sample_values) ==
  /\ last' = Served("suggest_single",
                    [column_name |-> column_name, sample_values |-> sample_values],
                    IF generate_mapping_suggestions_raises(data_model_fields, correction_history)
                      THEN HTTPException(500, "Error")
                      ELSE Response(200,
                             generate_mapping_suggestions(data_model_fields, correction_history,
                                pattern_library, column_name,
                                OrEmptyList(sample_values))),
                    NoOutcome)
  /\ UNCHANGED <<backend, db_url, data_model_fields, correction_history, pattern_library, database, inserted,
                 inflight>>

\* POST /api/auto-mapping/suggest
suggest_mappings(source_columns) ==
  /\ last' = Served("suggest_mappings", source_columns,
                    IF bulk_suggest_mappings_raises(data_model_fields, correction_history,
                                                    source_columns)
                      THEN HTTPException(500, "Error generating suggestions")
                      ELSE Response(200,
                             bulk_suggest_mappings(data_model_fields, correction_history,
                                                   pattern_library, source_columns)),
                    NoOutcome)
  /\ UNCHANGED <<backend, db_url, data_model_fields, correction_history, pattern_library, database, inserted,
                 inflight>>

\* a record_correction that reloads the dictionary as well as the history
record_correction_reloading(req, insert_raises, reload_raises) ==
  /\ inserted < MaxNewRows
  /\ inserted' = inserted + 1
  /\ database' = [database EXCEPT ![RecordPath(db_url)] = Append(@, InsertedRow(req))]
  /\ correction_history' = load_correction_history(database', db_url, reload_raises)
  /\ data_model_fields' = load_data_model(data_model_fields, reload_raises)
  /\ last' = Served("record_correction", req, Response(200, [status |-> "success"]),
                    Outcome(TRUE, ~reload_raises))
  /\ UNCHANGED <<backend, db_url, pattern_library, inflight>>

\* what POST /api/auto-mapping/correct answers: the acknowledgement, or a 500
\* when auto_mapper.record_correction raises
correct_response(raised) ==
  IF raised THEN HTTPException(500, "Error recording correction")
  ELSE Response(200, [status |-> "success"])

\* POST /api/auto-mapping/correct and AutoMapper.record_correction: the insert,
\* the commit and the reload; an exception of either is caught and logged
record_correction(req, insert_raises, reload_raises) ==
  /\ EventLoopFree
  /\ inserted < MaxNewRows
  /\ IF insert_raises
       THEN /\ UNCHANGED <<database, correction_history, inserted>>
            /\ last' = Served("record_correction", req,
                              correct_response(record_correction_raises(insert_raises, reload_raises)),
                              NoOutcome)
       ELSE LET db == [database EXCEPT ![RecordPath(db_url)] = Append(@, InsertedRow(req))]
            IN /\ database' = db
               /\ inserted' = inserted + 1
               /\ correction_history' = load_correction_history(db, db_url, reload_raises)
               /\ last' = Served("record_correction", req,
                                 correct_response(record_correction_raises(insert_raises, reload_raises)),
                                 Outcome(TRUE, ~reload_raises))
  /\ UNCHANGED <<backend, db_url, data_model_fields, pattern_library, inflight>>

\* GET /api/auto-mapping/stats
get_stats ==
  /\ last' = Served("get_stats", <<>>,
                    Response(200,
                             [data_model_fields |-> Len(data_model_fields),
                              corrections_learned |-> Len(correction_history),
                              pattern_types |-> Len(pattern_library),
                              status |-> "ready"]),
                    NoOutcome)
  /\ UNCHANGED <<backend, db_url, data_model_fields, correction_history, pattern_library, database, inserted,
                 inflight>>

\* the methods class AutoMapper defines
AutoMapperMethods ==
  {"__init__", "load_data_model", "load_correction_history", "analyze_data_patterns",
   "calculate_string_similarity", "get_semantic_similarity", "apply_learning_boost",
   "generate_mapping_suggestions", "record_correction", "bulk_suggest_mappings"}

\* the arguments of the MCP tool add_mapping_correction: source column,
\* incorrect suggestion, correct mapping
McpCorrections ==
  { [source_column |-> SrcNPI, incorrect_suggestion |-> ColNPI2, correct_mapping |-> ColNPI],
    [source_column |-> SrcNpis, incorrect_suggestion |-> ColTAX, correct_mapping |-> ColNPI] }

\* len(getattr(auto_mapper, 'correction_history', [])) of get_system_stats
auto_mapper_corrections(history) == Len(history)

\* the MCP tool add_mapping_correction on the server's AutoMapper(DB_URL): the
\* call auto_mapper.add_correction(...) raises AttributeError when the class
\* has no such method, and the tool returns {"error": str(e)}
add_mapping_correction(args) ==
  /\ db_url = ExplicitUrl
  /\ last' = Served("add_mapping_correction", args,
                    IF "add_correction" \in AutoMapperMethods
                      THEN [status |-> "success", message |-> "Correction added"]
                      ELSE [error |-> "'AutoMapper' object has no attribute 'add_correction'"],
                    NoOutcome)
  /\ UNCHANGED <<backend, db_url, data_model_fields, correction_history, pattern_library, database, inserted,
                 inflight>>

Next ==
  \/ \E column_name \in Sources, sample_values \in SampleInputs :
        suggest_single(column_name, sample_values)
  \/ \E source_columns \in BulkRequests : suggest_mappings(source_columns)
  \/ \E req \in CorrectionRequests, insert_raises, reload_raises \in BOOLEAN :
        record_correction(req, insert_raises, reload_raises)
  \/ get_stats
  \/ \E args \in McpCorrections : add_mapping_correction(args)

Spec == Init /\ [][Next]_vars

(***************************************************************************)
(* The suggest-single handler step by step: generate_mapping_suggestions   *)
(* scores one field of the dictionary after the other, and                 *)
(* apply_learning_boost reads self.correction_history anew for each field. *)
(***************************************************************************)
\* the requests whose handlers are followed step by step
SteppedRequests ==
  { [column_name |-> SrcNpi, sample_values |-> <<>>],
    [column_name |-> SrcNpis, sample_values |-> << <<ValTenDigits>> >>] }

\* the list returned when field i was scored against the history used[i]
suggestions_from(fields, used, library, source_column, sample_values) ==
  LET pattern_scores == analyze_data_patterns(library, sample_values)
      scored == [i \in DOMAIN fields |-> Score(used[i], pattern_scores, source_column, fields[i])]
      sorted == SortByConfidence(SelectSeq(scored, PassesFloor))
  IN SubSeq(sorted, 1, Min(TopN, Len(sorted)))

\* the event loop starts the handler of a suggest-single request
suggest_single_starts(request) ==
  /\ EventLoopFree
  /\ inflight' = Running(request.column_name, request.sample_values, <<>>)
  /\ UNCHANGED <<backend, db_url, data_model_fields, correction_history, pattern_library, database,
                 inserted, last>>

\* one pass of the loop over data_model_fields: the learning boost of the next
\* field iterates self.correction_history as it is now; an AttributeError ends
\* the handler with a 500
suggest_single_scores ==
  /\ inflight.active
  /\ Len(inflight.used) < Len(data_model_fields)
  /\ IF apply_learning_boost_raises(correction_history)
       THEN /\ inflight' = Idle
            /\ last' = Served("suggest_single",
                              [column_name |-> inflight.column_name,
                               sample_values |-> inflight.sample_values],
                              HTTPException(500, "Error"), NoOutcome)
       ELSE /\ inflight' = [inflight EXCEPT !.used = Append(@, correction_history)]
            /\ UNCHANGED last
  /\ UNCHANGED <<backend, db_url, data_model_fields, correction_history, pattern_library, database, inserted>>

\* the sort, the cut and the answer, after the last field
suggest_single_returns ==
  /\ inflight.active
  /\ Len(inflight.used) = Len(data_model_fields)
  /\ last' = Served("suggest_single",
                    [column_name |-> inflight.column_name,
                     sample_values |-> inflight.sample_values],
                    Response(200,
                             suggestions_from(data_model_fields, inflight.used, pattern_library,
                                              inflight.column_name,
                                              OrEmptyList(inflight.sample_values))),
                    NoOutcome)
  /\ inflight' = Idle
  /\ UNCHANGED <<backend, db_url, data_model_fields, correction_history, pattern_library, database, inserted>>

NextRequests ==
  \/ \E request \in SteppedRequests : suggest_single_starts(request)
  \/ suggest_single_scores
  \/ suggest_single_returns
  \/ \E req \in CorrectionRequests, insert_raises, reload_raises \in BOOLEAN :
        record_correction(req, insert_raises, reload_raises)

SpecRequests == Init /\ [][NextRequests]_vars

(***************************************************************************)
(* Properties.  They read the last operation: its request, its response    *)
(* and the state it started from.                                          *)
(***************************************************************************)
\* the suggestion lists the last operation returned
ReturnedLists ==
  IF last.op = "suggest_single" /\ last.response.status_code = 200
    THEN {last.response.body}
  ELSE IF last.op = "suggest_mappings" /\ last.response.status_code = 200
    THEN {last.response.body[k] : k \in DOMAIN last.response.body}
  ELSE {}

\* C1: every suggestion returned by generate_mapping_suggestions has a confidence
\* in the closed range [0, 1]
C1_ConfidenceInUnitRange ==
  \A list \in ReturnedLists : \A i \in DOMAIN list :
     list[i].confidence >= 0 /\ list[i].confidence <= ConfUnit

\* a request with sample values, served with a non-empty correction history and
\* answered with a suggestion that three signals raised above one half
C1_Witness ==
  /\ last.op = "suggest_single"
  /\ last.response.status_code = 200
  /\ OrEmptyList(last.request.sample_values) # <<>>
  /\ correction_history # <<>>
  /\ \E i \in DOMAIN last.response.body :
        /\ 2 * last.response.body[i].confidence > ConfUnit
        /\ \E k \in DOMAIN last.response.body[i].reasoning :
              last.response.body[i].reasoning[k] = <<"Previously learned mapping">>

\* C2: the returned list is ordered by confidence from highest to lowest: each
\* entry has a confidence greater than or equal to that of the next one
C2_SortedDescending ==
  \A list \in ReturnedLists : \A i \in 1..(Len(list) - 1) :
     list[i].confidence >= list[i + 1].confidence

\* a returned list whose order differs from the dictionary order of its entries
C2_Witness ==
  /\ last.op = "suggest_single"
  /\ last.response.status_code = 200
  /\ Len(last.response.body) >= 2
  /\ LET unsorted == Candidates(data_model_fields, correction_history, pattern_library,
                                last.request.column_name,
                                OrEmptyList(last.request.sample_values))
     IN unsorted[1] # last.response.body[1]

(***************************************************************************)
(* The requests the last operation answered: per source column the sample  *)
(* values scored (those of the last entry of a bulk request that names the *)
(* column) and the list returned.                                          *)
(***************************************************************************)
LastInfo(source_columns, name) ==
  source_columns[CHOOSE i \in DOMAIN source_columns :
                    /\ source_columns[i].column_name = name
                    /\ \A j \in (i + 1)..Len(source_columns) : source_columns[j].column_name # name]

Answer(column_name, sample_values, response) ==
  [column_name |-> column_name, sample_values |-> sample_values, response |-> response]

Answered ==
  IF last.op = "suggest_single" /\ last.response.status_code = 200
    THEN {Answer(last.request.column_name, OrEmptyList(last.request.sample_values),
                 last.response.body)}
  ELSE IF last.op = "suggest_mappings" /\ last.response.status_code = 200
    THEN {Answer(k, LastInfo(last.request, k).sample_values, last.response.body[k]) :
            k \in DOMAIN last.response.body}
  ELSE {}

\* the dictionary fields a suggestion names
FieldsOf(suggestion) ==
  {i \in DOMAIN data_model_fields :
     /\ data_model_fields[i].table = suggestion.target_table
     /\ data_model_fields[i].column = suggestion.target_column}

\* the confidence the code computes for field i of the dictionary on column x
\* with the sample values given, under a correction history
ConfidenceOf(history, x, sample_values, i) ==
  Score(history, analyze_data_patterns(pattern_library, sample_values), x,
        data_model_fields[i]).confidence

\* the last operation was a record_correction whose insert and reload both ran
\* to their end
Recorded ==
  /\ last.op = "record_correction"
  /\ last.outcome.inserted
  /\ last.outcome.reloaded

\* scoring runs to its end on the history before and on the history after
ScoresBeforeAndAfter ==
  /\ ~apply_learning_boost_raises(last.before.correction_history)
  /\ ~apply_learning_boost_raises(correction_history)

\* the dictionary fields the last correction names as the right target
CorrectedFields ==
  {i \in DOMAIN data_model_fields :
     /\ data_model_fields[i].table = last.request.correct_table
     /\ data_model_fields[i].column = last.request.correct_column}

\* the uncapped sum of boosts the target of the last correction had before it
BoostBefore(i) ==
  SumBoost(last.before.correction_history, last.request.source_column, data_model_fields[i])

C4_HistoryContainsRecord ==
  Recorded =>
     correction_history = Append(last.before.database[LoadPath(db_url)], InsertedRow(last.request))

\* C4, explicit db_url only: the reloaded history is the table with the new row
C4_ExplicitUrlReloadsRecord ==
  (Recorded /\ db_url # NoUrl) =>
     correction_history = Append(last.before.database[db_url], InsertedRow(last.request))

\* a correction recorded without a db_url whose row is in the table of the
\* record path and not in the reloaded history
C4_Witness ==
  /\ Recorded
  /\ db_url = NoUrl
  /\ database[DefaultRecordPath] = <<InsertedRow(last.request)>>
  /\ \A k \in DOMAIN correction_history : correction_history[k] # InsertedRow(last.request)

\* the candidates of an answered request: every dictionary field scored, those
\* above the floor kept, in dictionary order
CandidatesOf(a) ==
  Candidates(data_model_fields, correction_history, pattern_library,
             a.column_name, a.sample_values)

\* C5: at most 5 suggestions are returned, and they are the highest-confidence
\* candidates that pass the floor: no candidate left out has a confidence
\* strictly greater than a returned one
C5_TopFive ==
  \A a \in Answered :
     LET cands == CandidatesOf(a)
     IN /\ Len(a.response) <= TopN
        /\ Len(a.response) = Min(TopN, Len(cands))
        /\ Range(a.response) \subseteq Range(cands)
        /\ \A c \in Range(cands) \ Range(a.response) : \A i \in DOMAIN a.response :
              c.confidence <= a.response[i].confidence

\* more than 5 candidates passed the floor and one left out is strictly below
\* every returned one
C5_Witness ==
  \E a \in Answered :
     /\ Len(CandidatesOf(a)) > TopN
     /\ Len(a.response) = TopN
     /\ \E c \in Range(CandidatesOf(a)) \ Range(a.response) :
           c.confidence < a.response[TopN].confidence

\* C6 as stated: no returned suggestion has a confidence below 0.1, and a
\* candidate whose confidence is 0.1 or more is dropped only by the top-5 cut
C6_FloorInclusive ==
  \A a \in Answered :
     /\ \A i \in DOMAIN a.response : a.response[i].confidence >= ConfidenceFloor
     /\ \A i \in DOMAIN data_model_fields :
           ConfidenceOf(correction_history, a.column_name, a.sample_values, i) >= ConfidenceFloor
             => \/ Len(a.response) = TopN
                \/ \E k \in DOMAIN a.response : i \in FieldsOf(a.response[k])

\* C6: every returned suggestion has a confidence strictly above 0.1; a field
\* whose confidence is 0.1 or less is never returned, and a field whose
\* confidence is above 0.1 is dropped only by the top-5 cut
C6_FloorExclusive ==
  \A a \in Answered :
     /\ \A i \in DOMAIN a.response : a.response[i].confidence > ConfidenceFloor
     /\ \A i \in DOMAIN data_model_fields :
           LET confidence == ConfidenceOf(correction_history, a.column_name, a.sample_values, i)
               returned == \E k \in DOMAIN a.response : i \in FieldsOf(a.response[k])
           IN /\ confidence <= ConfidenceFloor => ~returned
              /\ confidence > ConfidenceFloor => (returned \/ Len(a.response) = TopN)

\* a field whose confidence is exactly 0.1 is left out of a list that has room
C6_Witness ==
  \E a \in Answered :
     /\ Len(a.response) < TopN
     /\ \E i \in DOMAIN data_model_fields :
           /\ ConfidenceOf(correction_history, a.column_name, a.sample_values, i) = ConfidenceFloor
           /\ \A k \in DOMAIN a.response : i \notin FieldsOf(a.response[k])

\* the blend of the name, semantic and learning signals alone, for field i
ThreeSignals(x, i) ==
  (4 * NameSimilarity[<<x, data_model_fields[i].column>>] * Thousandth
   + 2 * SemanticSimilarity[<<x, data_model_fields[i].description>>] * Thousandth
   + 2 * apply_learning_boost(correction_history, x, data_model_fields[i]) * Thousandth) \div 10

C8_WeightedBlend ==
  \A a \in Answered :
     LET pattern_scores == analyze_data_patterns(pattern_library, a.sample_values)
     IN /\ \A k \in DOMAIN a.response : \A i \in FieldsOf(a.response[k]) :
              10 * a.response[k].confidence =
                 4 * NameSimilarity[<<a.column_name, data_model_fields[i].column>>] * Thousandth
                 + 2 * SemanticSimilarity[<<a.column_name, data_model_fields[i].description>>] * Thousandth
                 + 2 * PatternBoost(pattern_scores, data_model_fields[i].column) * BoostUnit
                 + 2 * apply_learning_boost(correction_history, a.column_name, data_model_fields[i])
                     * Thousandth
        /\ \A i \in DOMAIN data_model_fields :
              10 * ConfidenceOf(correction_history, a.column_name, a.sample_values, i) =
                 4 * NameSimilarity[<<a.column_name, data_model_fields[i].column>>] * Thousandth
                 + 2 * SemanticSimilarity[<<a.column_name, data_model_fields[i].description>>] * Thousandth
                 + 2 * PatternBoost(pattern_scores, data_model_fields[i].column) * BoostUnit
                 + 2 * apply_learning_boost(correction_history, a.column_name, data_model_fields[i])
                     * Thousandth

\* a suggestion all four of whose signals are above 0, two of them different
C8_Witness ==
  \E a \in Answered : \E k \in DOMAIN a.response : \E i \in FieldsOf(a.response[k]) :
     LET name_similarity == NameSimilarity[<<a.column_name, data_model_fields[i].column>>]
         semantic_similarity == SemanticSimilarity[<<a.column_name, data_model_fields[i].description>>]
     IN /\ name_similarity > 0
        /\ semantic_similarity > 0
        /\ name_similarity # semantic_similarity
        /\ PatternBoost(analyze_data_patterns(pattern_library, a.sample_values),
                        data_model_fields[i].column) > 0
        /\ apply_learning_boost(correction_history, a.column_name, data_model_fields[i]) > 0

\* C9: scoring mutates nothing: a suggest-single and a bulk suggest leave
\* data_model_fields, correction_history, the pattern library and the tables of
\* corrections as they were before the call
C9_ScoringMutatesNothing ==
  last.op \in {"suggest_single", "suggest_mappings"} => Snapshot = last.before

\* a bulk request answered with suggestions while corrections are in memory and
\* in the table
C9_Witness ==
  /\ last.op = "suggest_mappings"
  /\ last.response.status_code = 200
  /\ \E k \in DOMAIN last.response.body : last.response.body[k] # <<>>
  /\ correction_history # <<>>
  /\ database[LoadPath(db_url)] # <<>>

\* C10: the log of corrections is append-only: a record_correction whose insert
\* succeeds adds exactly one row, with the source column, table and column
\* given, at the end of the table of its path; every other operation, and a
\* record_correction whose insert fails, leaves every table as it was
C10_AppendOnly ==
  IF last.op = "record_correction" /\ last.outcome.inserted
    THEN \E row \in {database[RecordPath(db_url)][Len(database[RecordPath(db_url)])]} :
            /\ row.source_column = last.request.source_column
            /\ row.correct_target_table = last.request.correct_table
            /\ row.correct_target_column = last.request.correct_column
            /\ database = [last.before.database EXCEPT ![RecordPath(db_url)] = Append(@, row)]
    ELSE database = last.before.database

\* a row is appended to a table that already held corrections
C10_Witness ==
  /\ last.op = "record_correction"
  /\ last.outcome.inserted
  /\ last.before.database[RecordPath(db_url)] # <<>>
  /\ Len(database[RecordPath(db_url)]) = Len(last.before.database[RecordPath(db_url)]) + 1

\* the last operation was a record_correction whose connection or insert
\* raised: no row was written
InsertFailed ==
  /\ last.op = "record_correction"
  /\ ~last.outcome.inserted

\* C11 as stated: when the database is unavailable while POST
\* /api/auto-mapping/correct records a correction, the endpoint answers with a
\* 500 error and never with the "success" acknowledgement
C11_UnavailableAnswers500 ==
  InsertFailed => last.response.status_code = 500

\* a correction that was not written to any table is acknowledged with
\* status "success"
C11_Witness ==
  /\ InsertFailed
  /\ database = last.before.database
  /\ last.response = Response(200, [status |-> "success"])

\* C20: if the insert of a correction fails, record_correction lets no
\* exception out (the route does not answer 500) and the in-memory
\* correction_history and the tables of corrections are as before the call
C20_FailedInsertChangesNothing ==
  InsertFailed =>
     /\ last.response.status_code # 500
     /\ correction_history = last.before.correction_history
     /\ database = last.before.database

\* an insert fails while corrections are in memory and in the table
C20_Witness ==
  /\ InsertFailed
  /\ correction_history # <<>>
  /\ database[LoadPath(db_url)] # <<>>
  /\ correction_history = database[LoadPath(db_url)]

\* C12 as stated: a failure inside a signal of the scorer (here the learning
\* boost, on a stored correction whose source column is NULL) makes that signal
\* contribute 0 for the candidate, and a ranked list is still returned: the
\* request is answered as it would be with no learned boost at all
C12_FailedSignalScoresZero ==
  /\ last.op \in {"suggest_single", "suggest_mappings"} => last.response.status_code = 200
  /\ (/\ last.op = "suggest_single"
      /\ generate_mapping_suggestions_raises(data_model_fields, correction_history))
       => last.response.body =
            generate_mapping_suggestions(data_model_fields, <<>>, pattern_library,
                                         last.request.column_name,
                                         OrEmptyList(last.request.sample_values))

\* a suggestion request is answered with a 500 because a correction in memory
\* has a NULL source column
C12_Witness ==
  /\ last.op = "suggest_single"
  /\ data_model_fields # <<>>
  /\ \E i \in DOMAIN correction_history : correction_history[i].source_column = NoneValue
  /\ last.response.status_code = 500

\* the past corrections to field i of the dictionary
CorrectionsTo(i) ==
  {k \in DOMAIN correction_history :
     /\ correction_history[k].correct_target_table = data_model_fields[i].table
     /\ correction_history[k].correct_target_column = data_model_fields[i].column}

\* those whose source column equals x ignoring case
ExactCorrections(x, i) ==
  {k \in CorrectionsTo(i) : Lower(correction_history[k].source_column) = Lower(x)}

\* those whose source column is more than 80% similar to x
SimilarCorrections(x, i) ==
  {k \in CorrectionsTo(i) : SourceRatio[<<correction_history[k].source_column, x>>] > 80}

\* C13: the learned boost of a candidate T for source column X is
\* min(0.5, 0.3 x (past corrections to T from X ignoring case) + 0.1 x (past
\* corrections to T from a source more than 80% similar to X, exact matches
\* included)); it is 0 when no past correction targets T and never above 0.5
C13_BoostFormula ==
  ~apply_learning_boost_raises(correction_history) =>
     \A x \in Sources : \A i \in DOMAIN data_model_fields :
        LET boost == apply_learning_boost(correction_history, x, data_model_fields[i])
        IN /\ boost = Min(500, 300 * Cardinality(ExactCorrections(x, i))
                               + 100 * Cardinality(SimilarCorrections(x, i)))
           /\ ExactCorrections(x, i) \subseteq SimilarCorrections(x, i)
           /\ CorrectionsTo(i) = {} => boost = 0
           /\ boost <= 500

\* a request is scored for a column that has a capped candidate, with exact and
\* near-duplicate corrections, and a candidate with near-duplicates only whose
\* boost is below the cap
C13_Witness ==
  /\ last.op = "suggest_single"
  /\ last.response.status_code = 200
  /\ \E i \in DOMAIN data_model_fields :
        /\ ExactCorrections(last.request.column_name, i) # {}
        /\ SimilarCorrections(last.request.column_name, i)
             # ExactCorrections(last.request.column_name, i)
        /\ apply_learning_boost(correction_history, last.request.column_name,
                                data_model_fields[i]) = 500
  /\ \E i \in DOMAIN data_model_fields :
        /\ ExactCorrections(last.request.column_name, i) = {}
        /\ apply_learning_boost(correction_history, last.request.column_name,
                                data_model_fields[i]) = 200

\* the categories of the scores whose name, or one of whose keywords between
\* underscores, occurs in the lower-cased column name
ApplicableCategories(pattern_scores, column) ==
  {c \in DOMAIN pattern_scores :
     \/ Contains(Lower(column), pattern_scores[c].name)
     \/ \E keyword \in Range(SplitOn(pattern_scores[c].name, "_")) :
           Contains(Lower(column), keyword)}

\* C14: a candidate receives a pattern-match boost only from the categories
\* whose name or keyword occurs in its lower-cased column name, each adding
\* 0.2 x its match fraction; a candidate whose column name contains no keyword
\* has pattern boost 0 whatever the sample values are
C14_BoostFromApplicableCategories ==
  \A a \in Answered :
     LET pattern_scores == analyze_data_patterns(pattern_library, a.sample_values)
     IN /\ \A i \in DOMAIN data_model_fields :
              LET applicable == ApplicableCategories(pattern_scores, data_model_fields[i].column)
                  boost == PatternBoost(pattern_scores, data_model_fields[i].column)
              IN /\ boost = SumOver(applicable, [c \in applicable |-> pattern_scores[c].score])
                 /\ applicable = {} => boost = 0
        /\ \A k \in DOMAIN a.response : \A i \in FieldsOf(a.response[k]) :
              LET applicable == ApplicableCategories(pattern_scores, data_model_fields[i].column)
              IN 10 * a.response[k].confidence =
                    4 * NameSimilarity[<<a.column_name, data_model_fields[i].column>>] * Thousandth
                    + 2 * SemanticSimilarity[<<a.column_name, data_model_fields[i].description>>]
                        * Thousandth
                    + 2 * SumOver(applicable, [c \in applicable |-> pattern_scores[c].score])
                        * BoostUnit
                    + 2 * apply_learning_boost(correction_history, a.column_name,
                                               data_model_fields[i]) * Thousandth

\* sample values match categories, a field without any keyword in its column
\* name gets no boost, and a field with a keyword gets a boost that leaves out
\* a matching category that does not apply to it
C14_Witness ==
  \E a \in Answered :
     LET pattern_scores == analyze_data_patterns(pattern_library, a.sample_values)
     IN /\ \E c \in DOMAIN pattern_scores : pattern_scores[c].score > 0
        /\ \E i \in DOMAIN data_model_fields :
              /\ ApplicableCategories(pattern_scores, data_model_fields[i].column) = {}
              /\ PatternBoost(pattern_scores, data_model_fields[i].column) = 0
        /\ \E k \in DOMAIN a.response : \E i \in FieldsOf(a.response[k]) :
              /\ PatternBoost(pattern_scores, data_model_fields[i].column) > 0
              /\ \E c \in DOMAIN pattern_scores :
                    /\ pattern_scores[c].score > 0
                    /\ c \notin ApplicableCategories(pattern_scores, data_model_fields[i].column)

\* C15 as stated: the reasoning of a suggestion lists only signals that
\* contributed to its score, and a part "Data pattern suggests P" names a
\* category P that matched the sample values and whose name or keyword occurs
\* in the target column name of the suggestion
C15_ReasoningNamesContributors ==
  \A a \in Answered : \A k \in DOMAIN a.response : \A i \in FieldsOf(a.response[k]) :
     LET pattern_scores == analyze_data_patterns(pattern_library, a.sample_values)
         field == data_model_fields[i]
     IN \A n \in DOMAIN a.response[k].reasoning :
           LET part == a.response[k].reasoning[n]
           IN /\ part = <<"Column name match">>
                   => NameSimilarity[<<a.column_name, field.column>>] > 0
              /\ part = <<"Previously learned mapping">>
                   => apply_learning_boost(correction_history, a.column_name, field) > 0
              /\ part = <<"Description similarity">>
                   => SemanticSimilarity[<<a.column_name, field.description>>] > 0
              /\ part[1] = "Data pattern suggests"
                   => \E c \in ApplicableCategories(pattern_scores, field.column) :
                         /\ pattern_scores[c].name = part[2]
                         /\ pattern_scores[c].score > 0

\* a suggestion whose reasoning names a category that has no keyword in the
\* suggestion's target column
C15_Witness ==
  \E a \in Answered : \E k \in DOMAIN a.response : \E i \in FieldsOf(a.response[k]) :
     LET pattern_scores == analyze_data_patterns(pattern_library, a.sample_values)
     IN \E n \in DOMAIN a.response[k].reasoning :
           /\ a.response[k].reasoning[n][1] = "Data pattern suggests"
           /\ \A c \in ApplicableCategories(pattern_scores, data_model_fields[i].column) :
                 pattern_scores[c].name # a.response[k].reasoning[n][2]

\* C16 as stated: data_model_fields holds at most one field per (table,
\* column) pair, and no suggestion list has two entries with the same
\* (target_table, target_column)
C16_UniquePairs ==
  /\ \A i, j \in DOMAIN data_model_fields :
        (/\ data_model_fields[i].table = data_model_fields[j].table
         /\ data_model_fields[i].column = data_model_fields[j].column) => i = j
  /\ \A list \in ReturnedLists : \A i, j \in DOMAIN list :
        (/\ list[i].target_table = list[j].target_table
         /\ list[i].target_column = list[j].target_column) => i = j

\* a list with two suggestions of the same target field is returned
C16_Witness ==
  \E list \in ReturnedLists : \E i, j \in DOMAIN list :
     /\ i # j
     /\ list[i].target_table = list[j].target_table
     /\ list[i].target_column = list[j].target_column

\* C17: the dictionary is loaded when the AutoMapper is constructed and is
\* read-only afterwards: no operation changes data_model_fields
C17_DictionaryReadOnly ==
  [][data_model_fields' = data_model_fields]_vars

\* a correction was recorded and the history reloaded while the dictionary
\* loaded at construction is still in memory
C17_Witness ==
  /\ Recorded
  /\ correction_history # last.before.correction_history
  /\ data_model_fields # <<>>
  /\ data_model_fields = last.before.data_model_fields

\* C19 as stated: the MCP tool add_mapping_correction records the correction
\* in the AutoMapper (the correction count of get_system_stats grows by one)
\* and returns status "success", not an error
C19_McpToolRecords ==
  last.op = "add_mapping_correction" =>
     /\ "status" \in DOMAIN last.response
     /\ "error" \notin DOMAIN last.response
     /\ auto_mapper_corrections(correction_history)
          = auto_mapper_corrections(last.before.correction_history) + 1

\* the tool answers a well-formed correction with an error and the AutoMapper
\* and the tables are as before
C19_Witness ==
  /\ last.op = "add_mapping_correction"
  /\ "error" \in DOMAIN last.response
  /\ correction_history = last.before.correction_history
  /\ database = last.before.database

\* C18: when suggest requests and correct requests on the shared AutoMapper
\* are interleaved, a suggest request scores all of its candidates against one
\* version of the correction history, the complete list before or after a
\* correction, and its answer is the one scoring against that list gives
C18_OneHistoryPerRequest ==
  /\ inflight.active =>
        \A i, j \in DOMAIN inflight.used : inflight.used[i] = inflight.used[j]
  /\ (last.op = "suggest_single" /\ last.response.status_code = 200) =>
        last.response.body =
           generate_mapping_suggestions(data_model_fields, last.before.correction_history,
                                        pattern_library, last.request.column_name,
                                        OrEmptyList(last.request.sample_values))

\* a handler has scored every field of the dictionary after a correction was
\* recorded and reloaded between two requests
C18_Witness ==
  /\ inflight.active
  /\ Len(inflight.used) = Len(data_model_fields)
  /\ Len(inflight.used) >= 2
  /\ last.op = "record_correction"
  /\ last.outcome.inserted
  /\ last.outcome.reloaded
  /\ inflight.used[1] = correction_history
  /\ correction_history # last.before.correction_history

\* C21: when the dictionary could not be loaded at construction,
\* data_model_fields is the empty list; every suggestion request then answers
\* 200 with an empty list (one empty list per named column for the bulk
\* endpoint), whatever the history holds, and the stats endpoint reports
\* data_model_fields = 0
C21_FailedLoadGivesEmptyLists ==
  data_model_fields = <<>> =>
    /\ last.op = "suggest_single" =>
         /\ last.response.status_code = 200
         /\ last.response.body = <<>>
    /\ last.op = "suggest_mappings" =>
         /\ last.response.status_code = 200
         /\ \A k \in DOMAIN last.response.body : last.response.body[k] = <<>>
    /\ last.op = "get_stats" =>
         /\ last.response.status_code = 200
         /\ last.response.body.data_model_fields = 0

\* a column with sample values is scored against the empty dictionary while
\* the history holds a correction whose source column is null
C21_Witness ==
  /\ data_model_fields = <<>>
  /\ last.op = "suggest_single"
  /\ OrEmptyList(last.request.sample_values) # <<>>
  /\ apply_learning_boost_raises(correction_history)
  /\ last.response = Response(200, <<>>)

(***************************************************************************)
(* analyze_data_patterns on its own: lists of sample values longer than    *)
(* 10, given to the method of one AutoMapper.                              *)
(***************************************************************************)
\* the lists have up to MaxSamples values
MaxSamples == 11

\* of which up to MaxTail are of a second kind
MaxTail == 2

Repeat(v, n) == [i \in 1..n |-> v]

\* sample_values: n values of one kind, then m of another
SampleLists ==
  {Repeat(a, n) \o Repeat(b, m) :
     <<a, b, n, m>> \in {t \in Values \X Values \X (0..MaxSamples) \X (0..MaxTail) :
                           t[3] + t[4] <= MaxSamples}}

\* AutoMapper(db_url) with a dictionary and a history that could not be loaded
InitPatterns ==
  /\ Init
  /\ db_url = ExplicitUrl
  /\ database = [p \in Paths |-> <<>>]
  /\ data_model_fields = <<>>
  /\ correction_history = <<>>

\* a call of AutoMapper.analyze_data_patterns(sample_values)
AnalyzeDataPatterns(sample_values) ==
  /\ last' = Served("analyze_data_patterns", sample_values,
                    analyze_data_patterns(pattern_library, sample_values), NoOutcome)
  /\ UNCHANGED <<backend, db_url, data_model_fields, correction_history, pattern_library, database, inserted,
                 inflight>>

NextPatterns == \E sample_values \in SampleLists : AnalyzeDataPatterns(sample_values)

SpecPatterns == InitPatterns /\ [][NextPatterns]_vars

\* the non-null values of the list analysed last
CleanValues == SelectSeq(last.request, LAMBDA v : v # NoneValue)

\* the indices, among the first 10 non-null values, of those that match a regex
\* of the category after strip()
MatchingAmongFirst(cat) ==
  {i \in 1..Min(Len(CleanValues), 10) :
     \E k \in DOMAIN cat.patterns : PatternMatches[<<cat.patterns[k], CleanValues[i]>>]}

\* C22: analyze_data_patterns gives each of the 8 categories the score
\* (number of the first 10 non-null stripped values that match a regex of the
\* category) / min(number of non-null values, 10); the score is in [0, 1], a
\* value counts once per category, the values after the tenth change nothing,
\* and a list of null values only has no scores
C22_PatternScores ==
  last.op = "analyze_data_patterns" =>
    IF CleanValues = <<>> THEN last.response = <<>>
    ELSE /\ Len(last.response) = 8
         /\ \A c \in 1..8 :
              /\ last.response[c].name = pattern_library[c].name
              /\ last.response[c].score * Min(Len(CleanValues), 10)
                   = Cardinality(MatchingAmongFirst(pattern_library[c])) * ScoreUnit
              /\ last.response[c].score >= 0
              /\ last.response[c].score <= ScoreUnit
         /\ last.response
              = analyze_data_patterns(pattern_library,
                                      SubSeq(CleanValues, 1, Min(Len(CleanValues), 10)))

\* ten ZIP codes, then an eleventh value that is a phone number: the ZIP
\* category scores 1 and the phone category 0
C22_Witness ==
  /\ last.op = "analyze_data_patterns"
  /\ Len(CleanValues) > 10
  /\ CleanValues[11] = ValTenDigits
  /\ \A i \in 1..10 : CleanValues[i] = ValZip
  /\ \E c \in DOMAIN last.response :
        last.response[c].name = <<"z","i","p","_","c","o","d","e">> /\ last.response[c].score = ScoreUnit
  /\ \E c \in DOMAIN last.response :
        last.response[c].name = <<"p","h","o","n","e">> /\ last.response[c].score = 0

\* C23: the dictionary bulk_suggest_mappings returns has exactly the distinct
\* non-empty column names of the request as keys (entries with an empty name
\* are skipped), and the value of a name is generate_mapping_suggestions for
\* that name with the sample values of its last entry
C23_BulkKeysAndValues ==
  (last.op = "suggest_mappings" /\ last.response.status_code = 200) =>
    /\ DOMAIN last.response.body
         = {last.request[i].column_name : i \in DOMAIN last.request} \ {<<>>}
    /\ \A k \in DOMAIN last.response.body :
         last.response.body[k]
           = generate_mapping_suggestions(last.before.data_model_fields,
                                          last.before.correction_history,
                                          last.before.pattern_library,
                                          k, LastInfo(last.request, k).sample_values)

\* a request that names a column twice with different sample values, the
\* value returned being the one of the second entry and not of the first
C23_Witness ==
  /\ last.op = "suggest_mappings"
  /\ last.response.status_code = 200
  /\ \E i, j \in DOMAIN last.request :
       /\ i < j
       /\ last.request[i].column_name = last.request[j].column_name
       /\ last.request[i].column_name \in DOMAIN last.response.body
       /\ last.response.body[last.request[i].column_name]
            # generate_mapping_suggestions(data_model_fields, correction_history,
                                           pattern_library, last.request[i].column_name,
                                           last.request[i].sample_values)

\* C26 as stated: whatever a record_correction call does (insert or reload
\* failing included), the in-memory history keeps every correction it held, so
\* the corrections_learned count of the stats endpoint never decreases
C26_HistoryNeverShrinks ==
  last.op = "record_correction" =>
    /\ Len(correction_history) >= Len(last.before.correction_history)
    /\ SubSeq(correction_history, 1, Len(last.before.correction_history))
         = last.before.correction_history

\* the insert went through and the reload failed: the history that held
\* corrections is now empty
C26_Witness ==
  /\ last.op = "record_correction"
  /\ last.outcome.inserted
  /\ ~last.outcome.reloaded
  /\ last.before.correction_history # <<>>
  /\ correction_history = <<>>
  /\ auto_mapper_corrections(correction_history)
       < auto_mapper_corrections(last.before.correction_history)

\* C27 as stated: a correction recorded for target T changes the confidence of
\* T only: for every source column and every dictionary field other than T the
\* confidence after the correction equals the one before it, and no
\* confidence of any field is lower after the correction than before
C27_OnlyTargetChanges ==
  (last.op = "record_correction" /\ last.outcome.inserted /\ ScoresBeforeAndAfter) =>
     \A x \in Sources, i \in DOMAIN data_model_fields, samples \in {<<>>, <<ValTenDigits>>} :
        LET after == ConfidenceOf(correction_history, x, samples, i)
            before == ConfidenceOf(last.before.correction_history, x, samples, i)
        IN /\ i \notin CorrectedFields => after = before
           /\ after >= before

\* a correction for one target was inserted, its reload failed, and the
\* confidence of another field, which earlier corrections had raised, is lower
\* than before
C27_Witness ==
  /\ last.op = "record_correction"
  /\ last.outcome.inserted
  /\ ~last.outcome.reloaded
  /\ ScoresBeforeAndAfter
  /\ \E x \in Sources, i \in DOMAIN data_model_fields :
        /\ i \notin CorrectedFields
        /\ ConfidenceOf(correction_history, x, <<>>, i)
             < ConfidenceOf(last.before.correction_history, x, <<>>, i)

\* the entries of a list of suggestions that have confidence c, in their order
WithConfidence(suggestions, c) == SelectSeq(suggestions, LAMBDA s : s.confidence = c)

IsPrefix(s, t) == Len(s) <= Len(t) /\ SubSeq(t, 1, Len(s)) = s

\* C28: the list returned is determined by the source column, the sample
\* values, the dictionary and the history (equal requests against equal state
\* get equal lists), and the returned candidates of one confidence are in the
\* order the dictionary was loaded in: they are the first of the candidates of
\* that confidence in the order of data_model_fields
C28_DeterministicRanking ==
  \A a \in Answered :
    /\ a.response = generate_mapping_suggestions(data_model_fields, correction_history,
                                                 pattern_library, a.column_name, a.sample_values)
    /\ \A k \in DOMAIN a.response :
         IsPrefix(WithConfidence(a.response, a.response[k].confidence),
                  WithConfidence(CandidatesOf(a), a.response[k].confidence))

\* two returned candidates of equal confidence that name different columns,
\* the one loaded first coming first
C28_Witness ==
  \E a \in Answered : \E k, l \in DOMAIN a.response :
     /\ k < l
     /\ a.response[k].confidence = a.response[l].confidence
     /\ a.response[k].target_column # a.response[l].target_column
     /\ \E i \in FieldsOf(a.response[k]), j \in FieldsOf(a.response[l]) : i < j

(***************************************************************************)
(* services/dsl_engine.py: DSLEngine.validate_expression, behind           *)
(* POST /dsl/validate.                                                     *)
(***************************************************************************)
\* the keys of FUNCTION_PATTERNS, in the order of the dict
FUNCTION_PATTERNS ==
  << <<"u","p","p","e","r">>, <<"l","o","w","e","r">>, <<"t","r","i","m">>,
     <<"s","u","b","s","t","r">>, <<"c","o","a","l","e","s","c","e">>,
     <<"r","e","g","e","x","_","e","x","t","r","a","c","t">>,
     <<"r","e","g","e","x","_","r","e","p","l","a","c","e">>,
     <<"c","o","l">>, <<"i","f">>, <<"m","a","t","c","h","e","s">>,
     <<"i","s","_","n","u","l","l">> >>

StartsWith(s, prefix) == Len(s) >= Len(prefix) /\ SubSeq(s, 1, Len(prefix)) = prefix

\* ['"]
QuoteChars == {"'", "\""}

\* s[a..b] has no character of bad
NoneOf(s, a, b, bad) == \A k \in a..b : s[k] \notin bad

\* s[a..b] is \s*\d+
SpacesThenDigits(s, a, b) ==
  \E m \in a..b : (\A k \in a..(m - 1) : IsSpace(s[k])) /\ (\A k \in m..b : IsDigit(s[k]))

\* s[a..] starts with \s*['"]([^'"]+)['"]: the positions of the closing quote
QuotedFrom(s, a) ==
  {q \in a..Len(s) :
     \E o \in a..(q - 2) :
        /\ \A k \in a..(o - 1) : IsSpace(s[k])
        /\ s[o] \in QuoteChars
        /\ NoneOf(s, o + 1, q - 1, QuoteChars)
        /\ s[q] \in QuoteChars}

\* s[a..] starts with ([^,]+), : the positions of that comma
FirstArgument(s, a) ==
  {c \in (a + 1)..Len(s) : s[c] = "," /\ NoneOf(s, a, c - 1, {","})}

\* re.match(FUNCTION_PATTERNS[func_name], s, re.IGNORECASE)
FunctionPatternMatch(func_name, s) ==
  LET n == Len(func_name)
      a == n + 2
      opened == StartsWith(Lower(s), func_name) /\ Len(s) > n /\ s[n + 1] = "("
      \* name\(([^)]+)\)
      one_argument == \E p \in (a + 1)..Len(s) : s[p] = ")" /\ NoneOf(s, a, p - 1, {")"})
  IN opened /\
     CASE func_name = <<"u","p","p","e","r">> -> one_argument
       [] func_name = <<"l","o","w","e","r">> -> one_argument
       [] func_name = <<"t","r","i","m">> -> one_argument
       [] func_name = <<"c","o","a","l","e","s","c","e">> -> one_argument
       [] func_name = <<"i","s","_","n","u","l","l">> -> one_argument
       [] func_name = <<"s","u","b","s","t","r">> ->
            \* substr\(([^,]+),\s*(\d+),\s*(\d+)\)
            \E c1 \in FirstArgument(s, a) : \E c2 \in (c1 + 2)..Len(s) : \E p \in (c2 + 2)..Len(s) :
               /\ s[c2] = "," /\ SpacesThenDigits(s, c1 + 1, c2 - 1)
               /\ s[p] = ")" /\ SpacesThenDigits(s, c2 + 1, p - 1)
       [] func_name = <<"r","e","g","e","x","_","e","x","t","r","a","c","t">> ->
            \* regex_extract\(([^,]+),\s*['"]([^'"]+)['"],\s*(\d+)\)
            \E c1 \in FirstArgument(s, a) : \E q \in QuotedFrom(s, c1 + 1) :
               \E p \in (q + 3)..Len(s) :
                  s[q + 1] = "," /\ s[p] = ")" /\ SpacesThenDigits(s, q + 2, p - 1)
       [] func_name = <<"r","e","g","e","x","_","r","e","p","l","a","c","e">> ->
            \* regex_replace\(([^,]+),\s*['"]([^'"]+)['"],\s*['"]([^'"]*)['"]\)
            \E c1 \in FirstArgument(s, a) : \E q \in QuotedFrom(s, c1 + 1) :
               \E o \in (q + 2)..Len(s) : \E q2 \in (o + 1)..(Len(s) - 1) :
                  /\ s[q + 1] = ","
                  /\ \A k \in (q + 2)..(o - 1) : IsSpace(s[k])
                  /\ s[o] \in QuoteChars /\ NoneOf(s, o + 1, q2 - 1, QuoteChars)
                  /\ s[q2] \in QuoteChars /\ s[q2 + 1] = ")"
       [] func_name = <<"c","o","l">> ->
            \* col\(['"]([^'"]+)['"]\)
            \E q \in (a + 2)..(Len(s) - 1) :
               /\ s[a] \in QuoteChars /\ NoneOf(s, a + 1, q - 1, QuoteChars)
               /\ s[q] \in QuoteChars /\ s[q + 1] = ")"
       [] func_name = <<"i","f">> ->
            \* if\(([^,]+),\s*([^,]+),\s*([^)]+)\)
            \E c1 \in FirstArgument(s, a) : \E c2 \in FirstArgument(s, c1 + 1) :
               \E p \in (c2 + 2)..Len(s) : s[p] = ")" /\ NoneOf(s, c2 + 1, p - 1, {")"})
       [] func_name = <<"m","a","t","c","h","e","s">> ->
            \* matches\(([^,]+),\s*['"]([^'"]+)['"]\)
            \E c1 \in FirstArgument(s, a) : \E q \in QuotedFrom(s, c1 + 1) :
               q < Len(s) /\ s[q + 1] = ")"
       [] OTHER -> FALSE

\* a balance check that only compares the totals at the end
check_balanced_parentheses_totals(expression) ==
  Cardinality({i \in DOMAIN expression : expression[i] = "("})
    = Cardinality({i \in DOMAIN expression : expression[i] = ")"})

RECURSIVE CountParentheses(_, _, _)
\* the loop of _check_balanced_parentheses from character i on, with the count
\* so far
CountParentheses(expression, i, count) ==
  IF i > Len(expression) THEN count = 0
  ELSE IF expression[i] = "(" THEN CountParentheses(expression, i + 1, count + 1)
  ELSE IF expression[i] = ")"
         THEN IF count - 1 < 0 THEN FALSE
              ELSE CountParentheses(expression, i + 1, count - 1)
  ELSE CountParentheses(expression, i + 1, count)

\* DSLEngine._check_balanced_parentheses
check_balanced_parentheses(expression) == CountParentheses(expression, 1, 0)

RECURSIVE FindCalls(_, _, _)
\* re.findall(func_name + '\([^)]*\)', expression, re.IGNORECASE) from
\* position i on: the matches from left to right, none overlapping another
FindCalls(func_name, expression, i) ==
  IF i > Len(expression) THEN <<>>
  ELSE LET n == Len(func_name)
           rest == SubSeq(expression, i, Len(expression))
           closing == {p \in (i + n + 1)..Len(expression) : expression[p] = ")"}
       IN IF /\ StartsWith(Lower(rest), func_name)
             /\ Len(rest) > n
             /\ rest[n + 1] = "("
             /\ closing # {}
            THEN LET p == CHOOSE c \in closing : \A d \in closing : c <= d
                 IN <<SubSeq(expression, i, p)>> \o FindCalls(func_name, expression, p + 1)
            ELSE FindCalls(func_name, expression, i + 1)

RECURSIVE ExtractFrom(_, _)
\* DSLEngine._extract_functions, from the k-th key of FUNCTION_PATTERNS on
ExtractFrom(expression, k) ==
  IF k > Len(FUNCTION_PATTERNS) THEN <<>>
  ELSE FindCalls(FUNCTION_PATTERNS[k], expression, 1) \o ExtractFrom(expression, k + 1)

extract_functions(expression) == ExtractFrom(expression, 1)

\* DSLEngine._validate_function_call: the pattern of the first key the call
\* starts with decides
validate_function_call(func_call) ==
  LET keys == {k \in DOMAIN FUNCTION_PATTERNS : StartsWith(Lower(func_call), FUNCTION_PATTERNS[k])}
  IN IF keys = {} THEN FALSE
     ELSE FunctionPatternMatch(FUNCTION_PATTERNS[CHOOSE k \in keys : \A j \in keys : k <= j],
                               func_call)

\* the dict validate_expression returns; calls are the invalid function calls
\* its message lists
Validation(valid, message, calls) == [valid |-> valid, message |-> message, calls |-> calls]

\* DSLEngine.validate_expression
validate_expression(e) ==
  IF Strip(e) = <<>> THEN Validation(TRUE, "Empty expression", <<>>)
  ELSE IF ~check_balanced_parentheses(e) THEN Validation(FALSE, "Unbalanced parentheses", <<>>)
  ELSE LET invalid_functions == SelectSeq(extract_functions(e),
                                          LAMBDA func_call : ~validate_function_call(func_call))
       IN IF invalid_functions # <<>>
            THEN Validation(FALSE, "Invalid function calls", invalid_functions)
            ELSE Validation(TRUE, "Valid expression", <<>>)

\* the expressions are made of up to MaxPieces of these pieces
MaxPieces == 4

Pieces == {<<"(">>, <<")">>, <<" ">>, <<"T","r","i","m">>, <<"x">>}

RECURSIVE Concat(_)
Concat(pieces) == IF pieces = <<>> THEN <<>> ELSE Head(pieces) \o Concat(Tail(pieces))

Expressions == {Concat(pieces) : pieces \in UNION {[1..n -> Pieces] : n \in 0..MaxPieces}}

\* an AutoMapper with nothing loaded, for the runs that are about another router
AutoMapperAtRest ==
  /\ db_url = ExplicitUrl
  /\ database = [p \in Paths |-> <<>>]
  /\ pattern_library = PatternLibrary
  /\ data_model_fields = <<>>
  /\ correction_history = <<>>
  /\ inserted = 0
  /\ inflight = Idle

\* nothing served yet
NothingServed ==
  [op |-> "__init__", request |-> <<>>, response |-> Response(200, <<>>),
   outcome |-> NoOutcome, before |-> <<>>]

\* a client holds an expression to validate
InitDsl ==
  /\ AutoMapperAtRest
  /\ expression_data \in Expressions
  /\ crosswalk_template = <<>>
  /\ snowflake_sql_exports = <<>>
  /\ crosswalk_mappings = <<>>
  /\ last = NothingServed

\* POST /dsl/validate with {"expression": expression_data}
validate_dsl_expression ==
  /\ last' = [op |-> "validate_dsl_expression", request |-> expression_data,
              response |-> Response(200, validate_expression(expression_data)),
              outcome |-> NoOutcome, before |-> <<>>]
  /\ UNCHANGED <<backend, mapper>>

NextDsl == validate_dsl_expression

SpecDsl == InitDsl /\ [][NextDsl]_vars

\* the number of characters c among the first k of s
CountOf(s, c, k) == Cardinality({i \in 1..k : s[i] = c})

\* some prefix has more ')' than '(', or the totals differ
Unbalanced(s) ==
  \/ \E k \in 1..Len(s) : CountOf(s, ")", k) > CountOf(s, "(", k)
  \/ CountOf(s, "(", Len(s)) # CountOf(s, ")", Len(s))

\* C25: validate_expression reports "Unbalanced parentheses" exactly when some
\* prefix of the expression has more ')' than '(' or the totals of '(' and ')'
\* differ, and reports an empty or whitespace-only expression valid
C25_UnbalancedReported ==
  last.op = "validate_dsl_expression" =>
    /\ (last.response.body.message = "Unbalanced parentheses") <=> Unbalanced(last.request)
    /\ (\A i \in DOMAIN last.request : last.request[i] = " ") => last.response.body.valid

\* an expression whose totals agree and whose first ')' comes before any '('
C25_Witness ==
  /\ last.op = "validate_dsl_expression"
  /\ CountOf(last.request, "(", Len(last.request)) = CountOf(last.request, ")", Len(last.request))
  /\ CountOf(last.request, "(", Len(last.request)) > 0
  /\ Unbalanced(last.request)
  /\ last.response.body = Validation(FALSE, "Unbalanced parentheses", <<>>)

(***************************************************************************)
(* routes/snowflake_export.py: POST /api/snowflake/generate-sql.  The SQL  *)
(* text is kept as the statement kind, the table name and the columns the  *)
(* generator lists; its timestamp comment is left out.                     *)
(***************************************************************************)
\* a row of crosswalk_template, as far as the endpoint reads it
TemplateRow(client_id, file_group_name, completion_status, source_column_name, mcdm_column_name, skipped_flag) ==
  [client_id |-> client_id, file_group_name |-> file_group_name,
   completion_status |-> completion_status, source_column_name |-> source_column_name,
   mcdm_column_name |-> mcdm_column_name, skipped_flag |-> skipped_flag]

\* the tables the runs start from, in source_column_order
Templates ==
  { <<>>,
    << TemplateRow("ACME", "CLAIMS", "READY", "npi", "NPI", FALSE),
       TemplateRow("ACME", "CLAIMS", "IN_PROGRESS", "zip", "ZIP", FALSE),
       TemplateRow("ACME", "MEMBERS", "DRAFT", "dob", "", FALSE),
       TemplateRow("OTHER", "CLAIMS", "DRAFT", "npi", "NPI", FALSE) >>,
    << TemplateRow("ACME", "MEMBERS", "VALIDATED", "", "DOB", FALSE),
       TemplateRow("ACME", "MEMBERS", "READY", "tax", "TAX", TRUE),
       TemplateRow("OTHER", "CLAIMS", "SKIPPED", "npi", "", TRUE) >> }

\* SnowflakeExport; file_group "" stands for None (both are falsy)
SnowflakeExport(client_id, file_group, export_type, table_name, created_by) ==
  [client_id |-> client_id, file_group |-> file_group, export_type |-> export_type,
   table_name |-> table_name, created_by |-> created_by]

ExportRequests ==
  {SnowflakeExport(c, g, t, "CLAIMS_STG", "") :
     c \in {"ACME", "OTHER"}, g \in {"", "CLAIMS", "MEMBERS"},
     t \in {"CREATE_TABLE", "INSERT_MAPPING", "FULL_ETL", "DROP_TABLE"}}

\* the rows the query of generate_snowflake_sql returns
ReadyMappings(template, export_request) ==
  SelectSeq(template, LAMBDA ct :
     /\ ct.client_id = export_request.client_id
     /\ export_request.file_group # "" => ct.file_group_name = export_request.file_group
     /\ ct.completion_status \in {"READY", "VALIDATED"})

SqlContent(statement, table_name, items) ==
  [statement |-> statement, table_name |-> table_name, items |-> items]

\* the columns of a list of template rows, one entry per row
ItemsOf(mappings) ==
  [i \in DOMAIN mappings |-> <<mappings[i].source_column_name, mappings[i].mcdm_column_name>>]

generate_create_table_sql(mappings, table_name) ==
  SqlContent("CREATE OR REPLACE TABLE", table_name,
             ItemsOf(SelectSeq(mappings, LAMBDA m : m.mcdm_column_name # "" /\ ~m.skipped_flag)))

generate_insert_mapping_sql(mappings, table_name) ==
  SqlContent("INSERT INTO", table_name,
             ItemsOf(SelectSeq(mappings, LAMBDA m : m.source_column_name # "")))

generate_full_etl_sql(mappings, table_name, client_id) ==
  SqlContent("CREATE OR REPLACE VIEW", table_name,
             ItemsOf(SelectSeq(mappings, LAMBDA m : ~m.skipped_flag /\ m.mcdm_column_name # "")))

ExportTypes == {"CREATE_TABLE", "INSERT_MAPPING", "FULL_ETL"}

\* str(e) of an HTTPException: "<status>: <detail>" where Starlette defines
\* __str__ for it, the empty string where it does not
StrOfHTTPException(status_code, has_str) ==
  IF ~has_str THEN ""
  ELSE IF status_code = 404 THEN "404: No ready mappings found"
  ELSE "400: Invalid export type"

\* except Exception as e: raise HTTPException(status_code=500, detail=str(e)),
\* reached by the HTTPException raised inside the try block
reraise(status_code, detail, has_str) ==
  HTTPException(500, StrOfHTTPException(status_code, has_str))

\* the row generate_snowflake_sql inserts
ExportRow(export_request, sql_content) ==
  [client_id |-> export_request.client_id, file_group |-> export_request.file_group,
   export_type |-> export_request.export_type, sql_content |-> sql_content,
   table_name |-> export_request.table_name,
   created_by |-> IF export_request.created_by = "" THEN "SYSTEM" ELSE export_request.created_by]

\* a run holds up to MaxExports rows of snowflake_sql_exports
MaxExports == 2

InitSnowflake ==
  /\ AutoMapperAtRest
  /\ expression_data = <<>>
  /\ crosswalk_template \in Templates
  /\ snowflake_sql_exports = <<>>
  /\ crosswalk_mappings = <<>>
  /\ last = NothingServed

\* POST /api/snowflake/generate-sql
generate_snowflake_sql(export_request, query_raises, has_str) ==
  LET mappings == ReadyMappings(crosswalk_template, export_request)
      sql_content ==
        IF export_request.export_type = "CREATE_TABLE"
          THEN generate_create_table_sql(mappings, export_request.table_name)
        ELSE IF export_request.export_type = "INSERT_MAPPING"
          THEN generate_insert_mapping_sql(mappings, export_request.table_name)
        ELSE generate_full_etl_sql(mappings, export_request.table_name, export_request.client_id)
      served(response) ==
        [op |-> "generate_snowflake_sql", request |-> export_request, response |-> response,
         outcome |-> NoOutcome, before |-> [snowflake_sql_exports |-> snowflake_sql_exports]]
  IN /\ Len(snowflake_sql_exports) < MaxExports
     /\ IF query_raises
          THEN /\ last' = served(HTTPException(500, "OperationalError"))
               /\ UNCHANGED snowflake_sql_exports
        ELSE IF mappings = <<>>
          THEN /\ last' = served(reraise(404, "No ready mappings found", has_str))
               /\ UNCHANGED snowflake_sql_exports
        ELSE IF export_request.export_type \notin ExportTypes
          THEN /\ last' = served(reraise(400, "Invalid export type", has_str))
               /\ UNCHANGED snowflake_sql_exports
        ELSE /\ snowflake_sql_exports' = Append(snowflake_sql_exports,
                                                ExportRow(export_request, sql_content))
             /\ last' = served(Response(200, [sql_content |-> sql_content,
                                              table_name |-> export_request.table_name,
                                              export_type |-> export_request.export_type,
                                              mapping_count |-> Len(mappings)]))
     /\ UNCHANGED <<mapper, expression_data, crosswalk_template, crosswalk_mappings>>

NextSnowflake ==
  \E export_request \in ExportRequests, query_raises, has_str \in BOOLEAN :
     generate_snowflake_sql(export_request, query_raises, has_str)

SpecSnowflake == InitSnowflake /\ [][NextSnowflake]_vars

\* the last request found no READY or VALIDATED row of its client
NoReadyMappings ==
  /\ last.op = "generate_snowflake_sql"
  /\ last.response.body # [detail |-> "OperationalError"]
  /\ ReadyMappings(crosswalk_template, last.request) = <<>>

\* the last request found rows and names no known export type
InvalidExportType ==
  /\ last.op = "generate_snowflake_sql"
  /\ last.response.body # [detail |-> "OperationalError"]
  /\ ReadyMappings(crosswalk_template, last.request) # <<>>
  /\ last.request.export_type \notin {"CREATE_TABLE", "INSERT_MAPPING", "FULL_ETL"}

\* C24 as stated: the endpoint answers 404 "No ready mappings found" when the
\* client has no mapping with status READY or VALIDATED and 400 "Invalid
\* export type" when export_type is none of the three known ones, and in both
\* cases adds no row to snowflake_sql_exports
C24_NotFoundAndBadRequest ==
  /\ NoReadyMappings =>
       /\ last.response = HTTPException(404, "No ready mappings found")
       /\ snowflake_sql_exports = last.before.snowflake_sql_exports
  /\ InvalidExportType =>
       /\ last.response = HTTPException(400, "Invalid export type")
       /\ snowflake_sql_exports = last.before.snowflake_sql_exports

\* a client without a ready mapping asked for a CREATE_TABLE export after an
\* export had been stored: the answer is a 500 and the table is as it was
C24_Witness ==
  /\ NoReadyMappings
  /\ last.request.export_type = "CREATE_TABLE"
  /\ last.response.status_code = 500
  /\ last.response.body.detail \in {"", "404: No ready mappings found"}
  /\ snowflake_sql_exports # <<>>
  /\ snowflake_sql_exports = last.before.snowflake_sql_exports

(***************************************************************************)
(* routes/crosswalk.py: PUT /profiles/{profile_id}/crosswalk, on a session *)
(* of SessionLocal (autoflush=False).  A row of crosswalk_mappings is kept *)
(* as its profile, its source column and the two model fields; its id is   *)
(* its position in the table.                                              *)
(***************************************************************************)
\* the ids of table source_profiles
SourceProfiles == {1, 2}

\* table source_columns: the profile of every source column id
SourceColumns == (1 :> 1) @@ (2 :> 2)

\* source_column_id of an entry that has none
NoColumn == 0

CrosswalkMapping(profile_id, source_column_id, model_table, model_column) ==
  [profile_id |-> profile_id, source_column_id |-> source_column_id,
   model_table |-> model_table, model_column |-> model_column]

\* an entry of the request body
MappingData(source_column_id, model_table, model_column) ==
  [source_column_id |-> source_column_id, model_table |-> model_table,
   model_column |-> model_column]

MappingEntries ==
  { MappingData(NoColumn, "PROV", "NPI"), MappingData(1, "PROV", "NPI"),
    MappingData(1, "MEMBER", "TAX"), MappingData(2, "PROV", "NPI") }

\* a request lists up to MaxEntries entries
MaxEntries == 2

\* the table holds up to MaxMappings rows
MaxMappings == 3

MappingRequests ==
  {[profile_id |-> p, mappings |-> m] :
     p \in {1, 9}, m \in UNION {[1..n -> MappingEntries] : n \in 0..MaxEntries}}

\* the entry is skipped: no source_column_id, or no source column of that id
\* in the profile
Skipped(profile_id, mapping_data) ==
  \/ mapping_data.source_column_id = NoColumn
  \/ mapping_data.source_column_id \notin DOMAIN SourceColumns
  \/ SourceColumns[mapping_data.source_column_id] # profile_id

\* the fields the loop assigns to the mapping of an entry
Updated(mapping, mapping_data) ==
  [mapping EXCEPT !.model_table = mapping_data.model_table,
                  !.model_column = mapping_data.model_column]

\* the loop of update_crosswalk_mappings: rows are the rows of the table with
\* the changes made to the objects loaded from it, pending the objects added
\* to the session and not flushed.  The query for the mapping reads the table
\* (autoflush=False: the pending objects are not in it) and .first() takes
\* any of the matching rows, their order being unspecified.  The result is
\* the set of the possible <<rows, pending>> at the commit.
RECURSIVE apply_mappings(_, _, _, _)
apply_mappings(profile_id, mappings, rows, pending) ==
  IF mappings = <<>> THEN {<<rows, pending>>}
  ELSE LET mapping_data == Head(mappings)
           found == {k \in DOMAIN rows : rows[k].source_column_id = mapping_data.source_column_id}
       IN IF Skipped(profile_id, mapping_data)
            THEN apply_mappings(profile_id, Tail(mappings), rows, pending)
          ELSE IF found = {}
            THEN apply_mappings(profile_id, Tail(mappings), rows,
                    Append(pending,
                           Updated(CrosswalkMapping(profile_id, mapping_data.source_column_id, "", ""),
                                   mapping_data)))
          ELSE UNION {apply_mappings(profile_id, Tail(mappings),
                                     [rows EXCEPT ![k] = Updated(@, mapping_data)], pending) :
                        k \in found}

InitCrosswalk ==
  /\ AutoMapperAtRest
  /\ expression_data = <<>>
  /\ crosswalk_template = <<>>
  /\ snowflake_sql_exports = <<>>
  /\ crosswalk_mappings \in {<<>>, <<CrosswalkMapping(2, 2, "CLAIM", "ZIP_CODE")>>}
  /\ last = NothingServed

\* PUT /profiles/{profile_id}/crosswalk
update_crosswalk_mappings(profile_id, mappings, commit_raises) ==
  LET served(response) ==
        [op |-> "update_crosswalk_mappings",
         request |-> [profile_id |-> profile_id, mappings |-> mappings],
         response |-> response, outcome |-> NoOutcome,
         before |-> [crosswalk_mappings |-> crosswalk_mappings]]
  IN /\ IF profile_id \notin SourceProfiles
          THEN /\ last' = served(HTTPException(404, "Profile not found"))
               /\ UNCHANGED crosswalk_mappings
        ELSE IF commit_raises
          THEN /\ last' = served(HTTPException(400, "OperationalError"))
               /\ UNCHANGED crosswalk_mappings
        ELSE \E session \in apply_mappings(profile_id, mappings, crosswalk_mappings, <<>>) :
               /\ Len(session[1] \o session[2]) <= MaxMappings
               /\ crosswalk_mappings' = session[1] \o session[2]
               /\ last' = served(Response(200, [message |-> "Mappings updated successfully"]))
     /\ UNCHANGED <<mapper, expression_data, crosswalk_template, snowflake_sql_exports>>

NextCrosswalk ==
  \E request \in MappingRequests, commit_raises \in BOOLEAN :
     update_crosswalk_mappings(request.profile_id, request.mappings, commit_raises)

SpecCrosswalk == InitCrosswalk /\ [][NextCrosswalk]_vars

\* the rows of crosswalk_mappings of a source column
MappingsOf(source_column_id) ==
  {k \in DOMAIN crosswalk_mappings : crosswalk_mappings[k].source_column_id = source_column_id}

\* C29 as stated: after any sequence of bulk updates, a request that lists a
\* source_column_id more than once included, every source column has at most
\* one row in crosswalk_mappings, and a request whose entries all lack a
\* source_column_id or name a column outside the profile leaves the table as
\* it was
C29_OneMappingPerColumn ==
  /\ \A c \in DOMAIN SourceColumns : Cardinality(MappingsOf(c)) <= 1
  /\ (/\ last.op = "update_crosswalk_mappings"
      /\ \A i \in DOMAIN last.request.mappings :
            Skipped(last.request.profile_id, last.request.mappings[i]))
       => crosswalk_mappings = last.before.crosswalk_mappings

\* one request listed source column 1 twice when it had no mapping: the table
\* has two rows for it, one per entry
C29_Witness ==
  /\ last.op = "update_crosswalk_mappings"
  /\ last.response.status_code = 200
  /\ Len(last.request.mappings) = 2
  /\ last.request.mappings[1].source_column_id = 1
  /\ last.request.mappings[2].source_column_id = 1
  /\ \A k \in DOMAIN last.before.crosswalk_mappings :
        last.before.crosswalk_mappings[k].source_column_id # 1
  /\ Cardinality(MappingsOf(1)) = 2

====
